---- MODULE Spec2Model ----
(***************************************************************************)
(* Model of the fee calculator (src/lambda/fee_service.py), of the         *)
(* DynamoDB ledger store (src/lambda/dynamodb_service.py) and of the       *)
(* sponsorship workflow (src/lambda/integration_handler.py) of the NIL     *)
(* blockchain platform.                                                    *)
(*                                                                         *)
(* Numbers.  The code computes on Python floats.  The model computes on    *)
(* exact decimals held as integers:                                        *)
(*   - a USD amount is an integer number of 1/20000 USD (1 cent = 200),    *)
(*     which holds 4%, 3% and 3.5% of any whole-cent deal value exactly;   *)
(*   - (a / b) * 100 is kept as the fraction a/b (b > 0) and compared with  *)
(*     a whole percentage by cross-multiplication;                         *)
(*   - round(x, n) is round-half-to-even, as Python's round().             *)
(***************************************************************************)
EXTENDS Integers, Sequences, FiniteSets, TLC

VARIABLES
    fee_structure,  \* FeeService.fee_structure (fee_service.py:29)
    call,           \* the last FeeService call: operation, argument, outcome
    table,          \* the items of the DynamoDB table (dynamodb_service.py:24)
    clock,          \* the wall clock read by _get_timestamp / datetime.utcnow
    next_id,        \* the identifiers _generate_id has handed out so far
    last,           \* the last DynamoDBService call: operation, outcome, result
    response        \* the last NILIntegrationService call: outcome, result, trace

vars == <<fee_structure, call, table, clock, next_id, last, response>>
fee_vars == <<fee_structure, call>>
store_vars == <<table, clock, next_id, last>>

----------------------------------------------------------------------------
(* Bounds of the model *)

\* deal values are DealStep-cent multiples from -MinDealSteps to MaxDealSteps
MaxDealSteps == 330
MinDealSteps == 12
\* premium fees tried by validate_premium_feature_fee: 0 .. MaxPremiumSteps quarters
MaxPremiumSteps == 60
\* the clock runs from 0 to MaxClock
MaxClock == 1
\* _generate_id is called at most MaxIds times
MaxIds == 2
\* and at most MaxAnalyticsIds times where the fee analytics are explored
MaxAnalyticsIds == 3
\* and at most MaxSponsorshipIds times where the sponsorship workflow is
MaxSponsorshipIds == 4
\* and at most MaxRecordingIds times where _record_fee_analytics is explored
MaxRecordingIds == 6

----------------------------------------------------------------------------
(* Decimal arithmetic *)

\* dollars.cents as an amount in 1/20000 USD
USD(dollars, cents) == (dollars * 100 + cents) * 200

\* a whole-cent value as an amount
Cents(c) == c * 200

Min(a, b) == IF a <= b THEN a ELSE b

\* num/den (den > 0) rounded to the nearest integer, ties to even: Python round()
RoundHalfEven(num, den) ==
    LET q == num \div den
        r == num - q * den
    IN  IF 2 * r < den THEN q
        ELSE IF 2 * r > den THEN q + 1
        ELSE IF q % 2 = 0 THEN q ELSE q + 1

\* round(amount, 2): an amount rounded to whole cents (still in 1/20000 USD)
Round2(amount) == RoundHalfEven(amount, 200) * 200

\* (a / b) * 100 as the fraction a/b with a positive denominator (b # 0)
PercentOf(a, b) ==
    IF b > 0 THEN [num |-> a, den |-> b]
    ELSE [num |-> 0 - a, den |-> 0 - b]

\* comparisons of (num / den) * 100 with a whole percentage
PercentGT(p, percent) == p.num * 100 > percent * p.den

PercentLE(p, percent) == p.num * 100 <= percent * p.den

PercentLT(p, percent) == p.num * 100 < percent * p.den

\* a slip in the rounding: the percentage cut after its first decimal
Round1Truncate(p) == (p.num * 1000) \div p.den

\* round(percent, 1) in tenths of a percent, by long division: the whole
\* percents, the first decimal, then the remainder against one half
Round1(p) ==
    LET whole == (p.num * 100) \div p.den
        r1 == p.num * 100 - whole * p.den
        digit == (r1 * 10) \div p.den
        r2 == r1 * 10 - digit * p.den
        down == whole * 10 + digit
    IN  IF 2 * r2 < p.den THEN down
        ELSE IF 2 * r2 > p.den THEN down + 1
        ELSE IF down % 2 = 0 THEN down ELSE down + 1

----------------------------------------------------------------------------
(* FeeStructure: percentages in whole percents, amounts in 1/20000 USD *)

\* a slip in the defaults: a deployment fee of 125.00 for 12.50
FeeStructureDeployment125 ==
    [ transaction_fee_percent      |-> 4,
      deployment_fee_usd           |-> USD(125, 0),
      subscription_fee_monthly_usd |-> USD(15, 0),
      premium_feature_fee_min_usd  |-> USD(5, 0),
      premium_feature_fee_max_usd  |-> USD(10, 0),
      max_effective_fee_percent    |-> 11 ]

\* lines 15-23: the defaults of the dataclass
FeeStructure ==
    [ transaction_fee_percent      |-> 4,
      deployment_fee_usd           |-> USD(12, 50),
      subscription_fee_monthly_usd |-> USD(15, 0),
      premium_feature_fee_min_usd  |-> USD(5, 0),
      premium_feature_fee_max_usd  |-> USD(10, 0),
      max_effective_fee_percent    |-> 11 ]

None == [none |-> TRUE]

\* FeeStructure is a dataclass: its fields can be given other values.  Two
\* configurations with flat fees of 200.00, which put deals up to 2857 (at 4%)
\* or 2222 (at 2%) over the cap, next to the default one.
FeeStructures ==
    { FeeStructure,
      [ FeeStructure EXCEPT !.deployment_fee_usd = USD(100, 0),
                            !.subscription_fee_monthly_usd = USD(100, 0) ],
      [ FeeStructure EXCEPT !.transaction_fee_percent = 2,
                            !.deployment_fee_usd = USD(100, 0),
                            !.subscription_fee_monthly_usd = USD(100, 0) ] }

----------------------------------------------------------------------------
(* FeeService.calculate_deal_fees *)

\* lines 41-55: the fees before the cap adjustment
UnadjustedFees(deal, fs) ==
    LET transaction_fee == (deal * fs.transaction_fee_percent) \div 100
        deployment_fee == fs.deployment_fee_usd
        subscription_fee == fs.subscription_fee_monthly_usd
        premium_fee == 0
        total_fee == transaction_fee + deployment_fee + subscription_fee + premium_fee
    IN  [ transaction_fee   |-> transaction_fee,
          deployment_fee    |-> deployment_fee,
          subscription_fee  |-> subscription_fee,
          premium_fee       |-> premium_fee,
          total_fee         |-> total_fee,
          effective_percent |-> PercentOf(total_fee, deal),
          adjusted          |-> FALSE ]

\* a slip in the tiers: 3.5% offered to every deal under 2000
TierTransactionFeeOneTier(deal, transaction_fee) ==
    IF deal < USD(2000, 0) THEN Min(transaction_fee, (deal * 7) \div 200)
    ELSE transaction_fee

\* lines 59-63: the transaction fee of a deal whose effective percent is over the
\* cap; 0.03 is 3/100 and 0.035 is 7/200
TierTransactionFee(deal, transaction_fee) ==
    IF deal < USD(1000, 0) THEN Min(transaction_fee, (deal * 3) \div 100)
    ELSE IF deal < USD(2000, 0) THEN Min(transaction_fee, (deal * 7) \div 200)
    ELSE transaction_fee

\* a slip in the recomputation: the deployment fee left out of the sum
RecalculatedTotalNoDeployment(f, transaction_fee) ==
    transaction_fee + f.subscription_fee + f.premium_fee

\* lines 66-67: total recomputed after the adjustment
RecalculatedTotal(f, transaction_fee) ==
    transaction_fee + f.deployment_fee + f.subscription_fee + f.premium_fee

\* a slip in the adjustment: the cap is tested on the percent as it is returned,
\* rounded to 1 decimal
AdjustedFeesOnRounded(deal, fs) ==
    LET f == UnadjustedFees(deal, fs)
    IN  IF Round1(f.effective_percent) > fs.max_effective_fee_percent * 10
        THEN LET transaction_fee == TierTransactionFee(deal, f.transaction_fee)
                 total_fee == RecalculatedTotal(f, transaction_fee)
             IN  [f EXCEPT !.transaction_fee = transaction_fee,
                           !.total_fee = total_fee,
                           !.effective_percent = PercentOf(total_fee, deal),
                           !.adjusted = TRUE]
        ELSE f

\* a slip in the adjustment: the deployment fee is waived along with the cut
AdjustedFeesWaiveDeployment(deal, fs) ==
    LET f == UnadjustedFees(deal, fs)
    IN  IF PercentGT(f.effective_percent, fs.max_effective_fee_percent)
        THEN LET transaction_fee == TierTransactionFee(deal, f.transaction_fee)
                 total_fee == transaction_fee + f.subscription_fee + f.premium_fee
             IN  [f EXCEPT !.transaction_fee = transaction_fee,
                           !.deployment_fee = 0,
                           !.total_fee = total_fee,
                           !.effective_percent = PercentOf(total_fee, deal),
                           !.adjusted = TRUE]
        ELSE f

\* a slip in the adjustment: a deal still over the cap after its tier is refined
\* once more, down to no transaction fee at all
AdjustedFeesRefined(deal, fs) ==
    LET f == UnadjustedFees(deal, fs)
    IN  IF PercentGT(f.effective_percent, fs.max_effective_fee_percent)
        THEN LET tier_fee == TierTransactionFee(deal, f.transaction_fee)
                 tier_total == RecalculatedTotal(f, tier_fee)
                 transaction_fee ==
                     IF PercentGT(PercentOf(tier_total, deal), fs.max_effective_fee_percent)
                     THEN 0 ELSE tier_fee
                 total_fee == RecalculatedTotal(f, transaction_fee)
             IN  [f EXCEPT !.transaction_fee = transaction_fee,
                           !.total_fee = total_fee,
                           !.effective_percent = PercentOf(total_fee, deal),
                           !.adjusted = TRUE]
        ELSE f

\* lines 57-67: the locals of calculate_deal_fees when it reaches its return
AdjustedFees(deal, fs) ==
    LET f == UnadjustedFees(deal, fs)
    IN  IF PercentGT(f.effective_percent, fs.max_effective_fee_percent)
        THEN LET transaction_fee == TierTransactionFee(deal, f.transaction_fee)
                 total_fee == RecalculatedTotal(f, transaction_fee)
             IN  [f EXCEPT !.transaction_fee = transaction_fee,
                           !.total_fee = total_fee,
                           !.effective_percent = PercentOf(total_fee, deal),
                           !.adjusted = TRUE]
        ELSE f

\* lines 69-88: the returned breakdown (the percentage in tenths of a percent)
DealFeeBreakdown(deal, f) ==
    [ deal_value_usd             |-> deal,
      transaction_fee_usd        |-> Round2(f.transaction_fee),
      deployment_fee_usd         |-> f.deployment_fee,
      subscription_fee_usd       |-> f.subscription_fee,
      premium_fee_usd            |-> f.premium_fee,
      total_effective_fee_usd    |-> Round2(f.total_fee),
      effective_fee_percentage   |-> Round1(f.effective_percent),
      retention_score            |-> IF PercentLT(f.effective_percent, 11)
                                     THEN "High" ELSE "Medium" ]

\* the outcome of calculate_deal_fees(deal): line 55 divides by the deal value
calculate_deal_fees(deal, fs) ==
    IF deal = 0
    THEN [outcome |-> "ZeroDivisionError", result |-> None, locals |-> None]
    ELSE LET f == AdjustedFees(deal, fs)
         IN  [outcome |-> "ok", result |-> DealFeeBreakdown(deal, f), locals |-> f]

----------------------------------------------------------------------------
(* FeeService.calculate_subscription_fee and validate_premium_feature_fee *)

\* a slip in the table: a quarter counted as four periods
SubscriptionTierFourPeriods(billing_cycle, fs) ==
    IF billing_cycle = "quarterly"
    THEN [monthly_fee |-> USD(12, 50), total_periods |-> 4]
    ELSE IF billing_cycle = "annual"
    THEN [monthly_fee |-> USD(10, 0), total_periods |-> 12]
    ELSE [monthly_fee |-> fs.subscription_fee_monthly_usd, total_periods |-> 1]

\* lines 100-110: the monthly fee and the number of periods of a billing cycle
SubscriptionTier(billing_cycle, fs) ==
    IF billing_cycle = "quarterly"
    THEN [monthly_fee |-> USD(12, 50), total_periods |-> 3]
    ELSE IF billing_cycle = "annual"
    THEN [monthly_fee |-> USD(10, 0), total_periods |-> 12]
    ELSE [monthly_fee |-> fs.subscription_fee_monthly_usd, total_periods |-> 1]

\* lines 112-118: days from now to the next billing date
BillingDays(billing_cycle) ==
    IF billing_cycle = "quarterly" THEN 90
    ELSE IF billing_cycle = "annual" THEN 365
    ELSE 30

\* datetime + timedelta(days=n), kept as the pair of the instant and the days added
PlusDays(now, n) == [from |-> now, days |-> n]

\* lines 120-132: the returned dict
calculate_subscription_fee(billing_cycle, fs, now) ==
    LET tier == SubscriptionTier(billing_cycle, fs)
    IN  [ billing_cycle        |-> billing_cycle,
          monthly_fee_usd      |-> tier.monthly_fee,
          total_period_fee_usd |-> tier.monthly_fee * tier.total_periods,
          next_billing_date    |-> PlusDays(now, BillingDays(billing_cycle)) ]

\* a slip in the comparison: the upper bound excluded
validate_premium_feature_fee_exclusive(fee_usd, fs) ==
    /\ fs.premium_feature_fee_min_usd <= fee_usd
    /\ fee_usd < fs.premium_feature_fee_max_usd

\* line 144
validate_premium_feature_fee(fee_usd, fs) ==
    /\ fs.premium_feature_fee_min_usd <= fee_usd
    /\ fee_usd <= fs.premium_feature_fee_max_usd

----------------------------------------------------------------------------
(* Inputs of the fee calculator *)

DealStep == Cents(625)

\* deal values off the grid: both sides of the two thresholds of the cap, and
\* large deals.  On every value of DealValues the decimals of the model give the
\* numbers the code gives on floats.  5000 is left out for that reason: its
\* effective percent 4.55 is a decimal tie, the float lies just under it and
\* the code returns 4.5 where round-half-to-even on the decimal gives 4.6.
ExtraDeals == { Cents(1), Cents(34374), Cents(34376), Cents(39285), Cents(39286),
                Cents(99999), Cents(199999), USD(2500, 0), USD(4000, 0) }

DealValues == { k * DealStep : k \in (0 - MinDealSteps)..MaxDealSteps } \cup ExtraDeals

PremiumFees == { Cents(25 * k) : k \in (0 - 4)..MaxPremiumSteps } \cup
               { USD(4, 99), USD(5, 1), USD(9, 99), USD(10, 1) }

BillingCycles == { "monthly", "quarterly", "annual", "weekly", "yearly", "Monthly", "" }

----------------------------------------------------------------------------
(* The calls of the fee service.  The service keeps no state but its        *)
(* fee_structure; call records the last call and what it gave.             *)

CalculateDealFees(deal) ==
    /\ call' = [op |-> "calculate_deal_fees", arg |-> deal]
                  @@ calculate_deal_fees(deal, fee_structure)
    /\ UNCHANGED <<fee_structure, store_vars, response>>

CalculateSubscriptionFee(billing_cycle) ==
    /\ call' = [ op |-> "calculate_subscription_fee", arg |-> billing_cycle,
                 outcome |-> "ok", now |-> clock,
                 result |-> calculate_subscription_fee(billing_cycle, fee_structure, clock) ]
    /\ UNCHANGED <<fee_structure, store_vars, response>>

ValidatePremiumFeatureFee(fee_usd) ==
    /\ call' = [ op |-> "validate_premium_feature_fee", arg |-> fee_usd,
                 outcome |-> "ok",
                 result |-> validate_premium_feature_fee(fee_usd, fee_structure) ]
    /\ UNCHANGED <<fee_structure, store_vars, response>>

----------------------------------------------------------------------------
(* The DynamoDB table.  A key f'USER#{id}' is the tuple <<"USER", id>>, the  *)
(* key 'METADATA' the tuple <<"METADATA">>; an item is a record holding the *)
(* attributes it was written with, and only those.                         *)

Users == { "u1", "u2" }
Emails == { "a@example.com" }
Roles == { "athlete" }
\* the roles of the specification of the users, where a record is rewritten
UserRoles == { "athlete", "sponsor" }
Wallets == { "0xA", "0xB" }
\* the whole store is explored with one user, one wallet and one plan; the
\* specifications of the contract and of the fee operations use all of them
OneUser == { "u1" }
OneWallet == { "0xA" }
OnePlan == { "monthly" }
OneContractId == { 1 }
SponsorWallets == { "0xS" }
ContractAddresses == { "0xC" }
ContractTerms == { [ abi |-> "abi", appearances_required |-> 5, payment_amount |-> 1,
                     platform_fee_percent |-> 4, deployment_fee |-> USD(12, 50) ] }
TxTypes == { "payment" }
TxHashes == { "0xT" }
TxAmounts == { 1 }
DeploymentFees == { USD(12, 50) }
SubscriptionFees == { USD(15, 0) }
PremiumFeatureFees == { USD(7, 50) }
Plans == { "monthly", "quarterly", "annual", "monitoring" }
Features == { "custom_contract" }
EntityTypes == { "TX", "FEE", "SUB", "PREMIUM", "CONTRACT" }
Limits == { 1, 50 }
Ids == 1..MaxIds
Times == 0..MaxClock

HasAttr(item, a) == a \in DOMAIN item

\* Key(...).begins_with('TX#'): the key is the tag followed by something
BeginsWithTag(key, tag) == key[1] = tag /\ Len(key) > 1

\* Key(...).begins_with('CONTRACT'): no key tag is a proper prefix of another one
BeginsWith(key, tag) == key[1] = tag

\* a put that replaces whatever is stored under the partition key of the item
PutItemByPartition(tbl, item) ==
    { i \in tbl : i.PK # item.PK } \cup { item }

\* a put that adds the item and leaves the one with the same key in place
PutItemKeepOld(tbl, item) == tbl \cup { item }

\* table.put_item: the item replaces the one with the same primary key
PutItem(tbl, item) ==
    { i \in tbl : ~(i.PK = item.PK /\ i.SK = item.SK) } \cup { item }

\* table.get_item(...).get('Item')
GetItem(tbl, pk, sk) ==
    IF \E i \in tbl : i.PK = pk /\ i.SK = sk
    THEN CHOOSE i \in tbl : i.PK = pk /\ i.SK = sk
    ELSE None

\* what a call leaves behind: it returned a value, or it raised; a create_user
\* that returned also leaves the item its put_item replaced, None when none.
\* requests counts the calls made on self.table: every operation of lines
\* 36-276 has one put_item, get_item, query or scan, outside any loop.
Returned(op, args, result, failed) ==
    [op |-> op, args |-> args, outcome |-> "returned", result |-> result,
     store_failed |-> failed, requests |-> 1]

Raised(op, args) ==
    [op |-> op, args |-> args, outcome |-> "raised", error |-> "ClientError",
     store_failed |-> TRUE, requests |-> 1]

\* the model hands out MaxIds identifiers
IdsLeft == next_id < MaxIds

\* a second reading of the clock within one call
LaterReads(t) == { t2 \in Times : t <= t2 /\ t2 <= t + 1 }

----------------------------------------------------------------------------
(* User management (lines 36-56) *)

UserItem(user_id, email, role, created_at, updated_at) ==
    [ PK |-> <<"USER", user_id>>, SK |-> <<"METADATA">>,
      email |-> email, role |-> role,
      created_at |-> created_at, updated_at |-> updated_at ]

CreateUser(user_id, email, role) ==
    \E updated_at \in LaterReads(clock), ok \in BOOLEAN :
        LET item == UserItem(user_id, email, role, clock, updated_at)
            args == [user_id |-> user_id, email |-> email, role |-> role]
        IN  /\ clock' = updated_at
            /\ table' = IF ok THEN PutItem(table, item) ELSE table
            /\ last' = IF ok
                       THEN Returned("create_user", args, item, FALSE)
                            @@ [replaced |-> GetItem(table, item.PK, item.SK)]
                       ELSE Raised("create_user", args)
            /\ UNCHANGED <<next_id, fee_vars, response>>

\* a lookup under the partition of the contracts instead of the users
GetUserWrongKey(user_id) ==
    \E ok \in BOOLEAN :
        LET args == [user_id |-> user_id]
        IN  /\ last' = IF ok
                       THEN Returned("get_user", args,
                                     GetItem(table, <<"CONTRACT", user_id>>, <<"METADATA">>), FALSE)
                       ELSE Raised("get_user", args)
            /\ UNCHANGED <<table, clock, next_id, fee_vars, response>>

GetUser(user_id) ==
    \E ok \in BOOLEAN :
        LET args == [user_id |-> user_id]
        IN  /\ last' = IF ok
                       THEN Returned("get_user", args,
                                     GetItem(table, <<"USER", user_id>>, <<"METADATA">>), FALSE)
                       ELSE Raised("get_user", args)
            /\ UNCHANGED <<table, clock, next_id, fee_vars, response>>

----------------------------------------------------------------------------
(* Contract management (lines 59-105) *)

\* a contract written without its entry in the global listing
ContractItemNoListing(contract_id, created_at, user_id, athlete_wallet, sponsor_wallet, contract_address, terms) ==
    [ PK |-> <<"CONTRACT", contract_id>>, SK |-> <<"METADATA">>,
      user_id |-> user_id,
      athlete_wallet |-> athlete_wallet,
      sponsor_wallet |-> sponsor_wallet,
      address |-> contract_address,
      abi |-> terms.abi,
      appearances_required |-> terms.appearances_required,
      payment_amount |-> terms.payment_amount,
      platform_fee_percent |-> terms.platform_fee_percent,
      deployment_fee |-> terms.deployment_fee,
      created_at |-> created_at, updated_at |-> created_at,
      status |-> "active",
      GSI1PK |-> <<"WALLET", athlete_wallet>>, GSI1SK |-> <<"CONTRACT", created_at>> ]

ContractItem(contract_id, created_at, user_id, athlete_wallet, sponsor_wallet, contract_address, terms) ==
    [ PK |-> <<"CONTRACT", contract_id>>, SK |-> <<"METADATA">>,
      user_id |-> user_id,
      athlete_wallet |-> athlete_wallet,
      sponsor_wallet |-> sponsor_wallet,
      address |-> contract_address,
      abi |-> terms.abi,
      appearances_required |-> terms.appearances_required,
      payment_amount |-> terms.payment_amount,
      platform_fee_percent |-> terms.platform_fee_percent,
      deployment_fee |-> terms.deployment_fee,
      created_at |-> created_at, updated_at |-> created_at,
      status |-> "active",
      GSI1PK |-> <<"WALLET", athlete_wallet>>, GSI1SK |-> <<"CONTRACT", created_at>>,
      GSI2PK |-> "CONTRACT", GSI2SK |-> created_at ]

CreateContract(user_id, athlete_wallet, sponsor_wallet, contract_address, terms) ==
    \E ok \in BOOLEAN :
        LET contract_id == next_id + 1
            item == ContractItem(contract_id, clock, user_id, athlete_wallet,
                                 sponsor_wallet, contract_address, terms)
            args == [user_id |-> user_id, athlete_wallet |-> athlete_wallet,
                     sponsor_wallet |-> sponsor_wallet,
                     contract_address |-> contract_address, terms |-> terms]
        IN  /\ next_id' = contract_id
            /\ table' = IF ok THEN PutItem(table, item) ELSE table
            /\ last' = IF ok THEN Returned("create_contract", args, item, FALSE)
                       ELSE Raised("create_contract", args)
            /\ UNCHANGED <<clock, fee_vars, response>>

GetContract(contract_id) ==
    \E ok \in BOOLEAN :
        LET args == [contract_id |-> contract_id]
        IN  /\ last' = IF ok
                       THEN Returned("get_contract", args,
                                     GetItem(table, <<"CONTRACT", contract_id>>, <<"METADATA">>),
                                     FALSE)
                       ELSE Raised("get_contract", args)
            /\ UNCHANGED <<table, clock, next_id, fee_vars, response>>

\* line 102-104: PK = USER#<user_id> and SK begins with 'CONTRACT'
get_user_contracts(tbl, user_id) ==
    { i \in tbl : i.PK = <<"USER", user_id>> /\ BeginsWith(i.SK, "CONTRACT") }

GetUserContracts(user_id) ==
    \E ok \in BOOLEAN :
        LET args == [user_id |-> user_id]
        IN  /\ last' = IF ok
                       THEN Returned("get_user_contracts", args,
                                     get_user_contracts(table, user_id), FALSE)
                       ELSE Raised("get_user_contracts", args)
            /\ UNCHANGED <<table, clock, next_id, fee_vars, response>>

----------------------------------------------------------------------------
(* Transaction management (lines 108-148) *)

\* a transaction keyed by its hash instead of a generated id
TransactionItemKeyedByHash(contract_id, tx_id, created_at, tx_hash, tx_type, amount, recipient_wallet) ==
    [ PK |-> <<"CONTRACT", contract_id>>, SK |-> <<"TX", tx_hash>>,
      tx_hash |-> tx_hash, type |-> tx_type, amount |-> amount,
      recipient_wallet |-> recipient_wallet,
      created_at |-> created_at,
      GSI1PK |-> <<"WALLET", recipient_wallet>>, GSI1SK |-> <<"TX", created_at>>,
      GSI2PK |-> "TX", GSI2SK |-> created_at ]

TransactionItem(contract_id, tx_id, created_at, tx_hash, tx_type, amount, recipient_wallet) ==
    [ PK |-> <<"CONTRACT", contract_id>>, SK |-> <<"TX", tx_id>>,
      tx_hash |-> tx_hash, type |-> tx_type, amount |-> amount,
      recipient_wallet |-> recipient_wallet,
      created_at |-> created_at,
      GSI1PK |-> <<"WALLET", recipient_wallet>>, GSI1SK |-> <<"TX", created_at>>,
      GSI2PK |-> "TX", GSI2SK |-> created_at ]

LogTransaction(contract_id, tx_hash, tx_type, amount, recipient_wallet) ==
    \E ok \in BOOLEAN :
        LET tx_id == next_id + 1
            item == TransactionItem(contract_id, tx_id, clock, tx_hash, tx_type,
                                    amount, recipient_wallet)
            args == [contract_id |-> contract_id, tx_hash |-> tx_hash,
                     tx_type |-> tx_type, amount |-> amount,
                     recipient_wallet |-> recipient_wallet]
        IN  /\ next_id' = tx_id
            /\ table' = IF ok THEN PutItem(table, item) ELSE table
            /\ last' = IF ok THEN Returned("log_transaction", args, item, FALSE)
                       ELSE Raised("log_transaction", args)
            /\ UNCHANGED <<clock, fee_vars, response>>

\* lines 135-137: PK = CONTRACT#<contract_id> and SK begins with 'TX#'
get_contract_transactions(tbl, contract_id) ==
    { i \in tbl : i.PK = <<"CONTRACT", contract_id>> /\ BeginsWithTag(i.SK, "TX") }

GetContractTransactions(contract_id) ==
    \E ok \in BOOLEAN :
        LET args == [contract_id |-> contract_id]
        IN  /\ last' = IF ok
                       THEN Returned("get_contract_transactions", args,
                                     get_contract_transactions(table, contract_id), FALSE)
                       ELSE Raised("get_contract_transactions", args)
            /\ UNCHANGED <<table, clock, next_id, fee_vars, response>>

\* the items of GSI1 under one partition key whose sort key begins with tag
QueryGSI1(tbl, pk, tag) ==
    { i \in tbl : /\ HasAttr(i, "GSI1PK") /\ HasAttr(i, "GSI1SK")
                  /\ i.GSI1PK = pk /\ BeginsWithTag(i.GSI1SK, tag) }

\* the orders of the items of S, oldest first (ScanIndexForward=True)
AscendingOrders(S) ==
    { s \in [1..Cardinality(S) -> S] :
        /\ \A i, j \in 1..Cardinality(S) : i # j => s[i] # s[j]
        /\ \A i, j \in 1..Cardinality(S) : i < j => s[i].GSI1SK[2] <= s[j].GSI1SK[2] }

\* the orders in which the index can hand out the items of S, newest first
\* (ScanIndexForward=False); items with equal sort keys come in either order
DescendingOrders(S) ==
    { s \in [1..Cardinality(S) -> S] :
        /\ \A i, j \in 1..Cardinality(S) : i # j => s[i] # s[j]
        /\ \A i, j \in 1..Cardinality(S) : i < j => s[i].GSI1SK[2] >= s[j].GSI1SK[2] }

\* Limit=limit
Take(s, limit) == SubSeq(s, 1, Min(limit, Len(s)))

GetWalletTransactions(wallet_address, limit) ==
    \E ok \in BOOLEAN :
        \E s \in DescendingOrders(QueryGSI1(table, <<"WALLET", wallet_address>>, "TX")) :
            LET args == [wallet_address |-> wallet_address, limit |-> limit]
            IN  /\ last' = IF ok
                           THEN Returned("get_wallet_transactions", args, Take(s, limit), FALSE)
                           ELSE Raised("get_wallet_transactions", args)
                /\ UNCHANGED <<table, clock, next_id, fee_vars, response>>

----------------------------------------------------------------------------
(* Fee management (lines 151-229) *)

\* Decimal(str(fee_usd)): str() gives the shortest decimal that reads back as the
\* same float, so a whole-cent amount is stored as that amount
ToDecimal(fee_usd) == fee_usd

DeploymentFeeItem(fee_id, created_at, user_id, user_type, contract_type, fee_usd) ==
    [ PK |-> <<"FEE", fee_id>>, SK |-> <<"DEPLOYMENT">>,
      user_id |-> user_id, user_type |-> user_type,
      contract_type |-> contract_type,
      fee_usd |-> ToDecimal(fee_usd),
      status |-> "completed",
      created_at |-> created_at,
      GSI1PK |-> <<"USER", user_id>>, GSI1SK |-> <<"FEE", created_at>>,
      GSI2PK |-> "FEE", GSI2SK |-> created_at ]

RecordDeploymentFee(user_id, user_type, contract_type, fee_usd) ==
    \E ok \in BOOLEAN :
        LET fee_id == next_id + 1
            item == DeploymentFeeItem(fee_id, clock, user_id, user_type,
                                      contract_type, fee_usd)
            args == [user_id |-> user_id, user_type |-> user_type,
                     contract_type |-> contract_type, fee_usd |-> fee_usd]
        IN  /\ next_id' = fee_id
            /\ table' = IF ok THEN PutItem(table, item) ELSE table
            /\ last' = IF ok THEN Returned("record_deployment_fee", args, item, FALSE)
                       ELSE Raised("record_deployment_fee", args)
            /\ UNCHANGED <<clock, fee_vars, response>>

\* lines 182-188
SubscriptionDays(plan_name) ==
    IF plan_name = "quarterly" THEN 90
    ELSE IF plan_name = "annual" THEN 365
    ELSE 30

\* a subscription keyed by its plan instead of a generated id
SubscriptionFeeItemKeyedByPlan(sub_id, created_at, now, user_id, plan_name, fee_usd) ==
    [ PK |-> <<"USER", user_id>>, SK |-> <<"SUB", plan_name>>,
      plan |-> plan_name,
      fee_usd |-> ToDecimal(fee_usd),
      start_date |-> created_at,
      end_date |-> PlusDays(now, SubscriptionDays(plan_name)),
      status |-> "active",
      created_at |-> created_at,
      GSI2PK |-> "SUB", GSI2SK |-> created_at ]

SubscriptionFeeItem(sub_id, created_at, now, user_id, plan_name, fee_usd) ==
    [ PK |-> <<"USER", user_id>>, SK |-> <<"SUB", sub_id>>,
      plan |-> plan_name,
      fee_usd |-> ToDecimal(fee_usd),
      start_date |-> created_at,
      end_date |-> PlusDays(now, SubscriptionDays(plan_name)),
      status |-> "active",
      created_at |-> created_at,
      GSI2PK |-> "SUB", GSI2SK |-> created_at ]

RecordSubscriptionFee(user_id, user_type, plan_name, fee_usd) ==
    \E now \in LaterReads(clock), ok \in BOOLEAN :
        LET sub_id == next_id + 1
            item == SubscriptionFeeItem(sub_id, clock, now, user_id, plan_name, fee_usd)
            args == [user_id |-> user_id, user_type |-> user_type,
                     plan_name |-> plan_name, fee_usd |-> fee_usd]
        IN  /\ next_id' = sub_id
            /\ clock' = now
            /\ table' = IF ok THEN PutItem(table, item) ELSE table
            /\ last' = IF ok THEN Returned("record_subscription_fee", args, item, FALSE)
                       ELSE Raised("record_subscription_fee", args)
            /\ UNCHANGED <<fee_vars, response>>

PremiumFeeItem(feature_id, created_at, user_id, feature_name, fee_usd) ==
    [ PK |-> <<"USER", user_id>>, SK |-> <<"PREMIUM", feature_id>>,
      feature_name |-> feature_name,
      fee_usd |-> ToDecimal(fee_usd),
      status |-> "active",
      created_at |-> created_at,
      GSI1PK |-> <<"USER", user_id>>, GSI1SK |-> <<"PREMIUM", created_at>>,
      GSI2PK |-> "PREMIUM", GSI2SK |-> created_at ]

RecordPremiumFee(user_id, user_type, feature_name, fee_usd) ==
    \E ok \in BOOLEAN :
        LET feature_id == next_id + 1
            item == PremiumFeeItem(feature_id, clock, user_id, feature_name, fee_usd)
            args == [user_id |-> user_id, user_type |-> user_type,
                     feature_name |-> feature_name, fee_usd |-> fee_usd]
        IN  /\ next_id' = feature_id
            /\ table' = IF ok THEN PutItem(table, item) ELSE table
            /\ last' = IF ok THEN Returned("record_premium_fee", args, item, FALSE)
                       ELSE Raised("record_premium_fee", args)
            /\ UNCHANGED <<clock, fee_vars, response>>

----------------------------------------------------------------------------
(* Analytics and reporting (lines 232-286) *)

\* a filter that lets the premium fees through no more
FeeScanFilterNoPremium(i) ==
    \/ BeginsWithTag(i.PK, "FEE")
    \/ (HasAttr(i, "GSI2PK") /\ i.GSI2PK = "SUB")

\* line 247: the filter of the scan
FeeScanFilter(i) ==
    \/ BeginsWithTag(i.PK, "FEE")
    \/ (HasAttr(i, "GSI2PK") /\ i.GSI2PK = "SUB")
    \/ (HasAttr(i, "GSI2PK") /\ i.GSI2PK = "PREMIUM")

RECURSIVE SumFees(_)
\* lines 254-257: total_fees over the items that carry fee_usd
SumFees(items) ==
    IF items = {} THEN 0
    ELSE LET i == CHOOSE x \in items : TRUE
         IN  (IF HasAttr(i, "fee_usd") THEN i.fee_usd ELSE 0) + SumFees(items \ {i})

\* lines 250-263: analytics['overall'] of a scan that succeeded
FeeOverall(tbl) ==
    LET items == { i \in tbl : FeeScanFilter(i) }
        total_fees == SumFees(items)
        fee_count == Cardinality({ i \in items : HasAttr(i, "fee_usd") })
    IN  [ total_deals   |-> fee_count,
          total_revenue |-> Round2(total_fees),
          avg_fee       |-> IF fee_count > 0
                            THEN RoundHalfEven(total_fees, fee_count * 200) * 200
                            ELSE 0 ]

\* lines 234-238: the dict the call starts from; overall is the empty dict
EmptyAnalytics == [ by_deal_size |-> <<>>, overall |-> <<>>, top_users |-> <<>> ]

\* lines 244-268: a failed scan is logged and the initial dict is returned
GetFeeAnalytics ==
    \E ok \in BOOLEAN :
        /\ last' = IF ok
                   THEN Returned("get_fee_analytics", <<>>,
                                 [EmptyAnalytics EXCEPT !.overall = FeeOverall(table)], FALSE)
                   ELSE Returned("get_fee_analytics", <<>>, EmptyAnalytics, TRUE)
        /\ UNCHANGED <<table, clock, next_id, fee_vars, response>>

\* a range that leaves out the items created at end_date
get_transactions_by_date_range_open(tbl, start_date, end_date, entity_type) ==
    { i \in tbl : /\ HasAttr(i, "GSI2PK") /\ HasAttr(i, "GSI2SK")
                  /\ i.GSI2PK = entity_type
                  /\ start_date <= i.GSI2SK /\ i.GSI2SK < end_date }

\* lines 272-275: GSI2PK = entity_type and start_date <= GSI2SK <= end_date
get_transactions_by_date_range(tbl, start_date, end_date, entity_type) ==
    { i \in tbl : /\ HasAttr(i, "GSI2PK") /\ HasAttr(i, "GSI2SK")
                  /\ i.GSI2PK = entity_type
                  /\ start_date <= i.GSI2SK /\ i.GSI2SK <= end_date }

GetTransactionsByDateRange(start_date, end_date, entity_type) ==
    \E ok \in BOOLEAN :
        LET args == [start_date |-> start_date, end_date |-> end_date,
                     entity_type |-> entity_type]
        IN  /\ last' = IF ok
                       THEN Returned("get_transactions_by_date_range", args,
                                     get_transactions_by_date_range(table, start_date,
                                                                    end_date, entity_type),
                                     FALSE)
                       ELSE Raised("get_transactions_by_date_range", args)
            /\ UNCHANGED <<table, clock, next_id, fee_vars, response>>

\* lines 279-286: get_contract, then get_contract_transactions when it was found
GetContractForCompliance(contract_id) ==
    \E ok1 \in BOOLEAN, ok2 \in BOOLEAN :
        LET args == [contract_id |-> contract_id]
            contract == GetItem(table, <<"CONTRACT", contract_id>>, <<"METADATA">>)
            transactions == get_contract_transactions(table, contract_id)
            second == [requests |-> 2]
        IN  /\ last' = IF ~ok1 THEN Raised("get_contract_for_compliance", args)
                       ELSE IF contract = None
                       THEN Returned("get_contract_for_compliance", args, None, FALSE)
                       ELSE IF ~ok2
                       THEN second @@ Raised("get_contract_for_compliance", args)
                       ELSE second @@ Returned("get_contract_for_compliance", args,
                                     [contract |-> contract, transactions |-> transactions],
                                     FALSE)
            /\ UNCHANGED <<table, clock, next_id, fee_vars, response>>

----------------------------------------------------------------------------
(* Time passes between calls *)

Tick ==
    /\ clock < MaxClock
    /\ clock' = clock + 1
    /\ UNCHANGED <<table, next_id, last, fee_vars, response>>

----------------------------------------------------------------------------
(* NILIntegrationService.create_sponsorship_opportunity and                *)
(* _record_fee_analytics (integration_handler.py, lines 113-224).  The     *)
(* athlete profile and the blockchain task come from HTTP services; each   *)
(* request either answers or raises.  An ETH amount is an integer number   *)
(* of 1/20000 ETH.                                                         *)

\* thousandths of an ETH as an amount
MilliEth(m) == m * 20

SponsorIds == { "s1" }
\* int(athlete_id) takes a string of digits, leading zeros included
AthleteIds == { "7", "007", "u1" }
AmountsEth == { MilliEth(0), MilliEth(50), MilliEth(250), MilliEth(750), MilliEth(1500) }

\* line 160: int(athlete_id) raises ValueError unless the string is a number
IsDigits(athlete_id) == athlete_id \in { "7", "007" }

\* str(int(athlete_id)), lines 160 and 196, 205, 214: the leading zeros are lost
StrInt(athlete_id) == IF athlete_id = "007" THEN "7" ELSE athlete_id

\* line 121-122: eth_price_usd = 2000.0, deal_value_usd = amount_eth * eth_price_usd
DealValueUsd(amount_eth) == amount_eth * 2000

\* a slip in the inline fees: the tiers for small deals left out
SponsorshipFeesNoTiers(deal) ==
    [ transaction_fee_usd  |-> (deal * 4) \div 100,
      deployment_fee_usd   |-> USD(12, 50),
      subscription_fee_usd |-> USD(15, 0),
      premium_fee_usd      |-> 0 ]

\* lines 125-139: the fees of a deal (deal # 0), none of them rounded
SponsorshipFees(deal) ==
    LET transaction_fee_usd == (deal * 4) \div 100
        deployment_fee_usd == USD(12, 50)
        subscription_fee_usd == USD(15, 0)
        premium_fee_usd == 0
        total_fee_percentage ==
            PercentOf(transaction_fee_usd + deployment_fee_usd + subscription_fee_usd
                          + premium_fee_usd, deal)
    IN  [ transaction_fee_usd  |-> IF PercentGT(total_fee_percentage, 11)
                                   THEN IF deal < USD(1000, 0) THEN (deal * 3) \div 100
                                        ELSE IF deal < USD(2000, 0) THEN (deal * 7) \div 200
                                        ELSE transaction_fee_usd
                                   ELSE transaction_fee_usd,
          deployment_fee_usd   |-> deployment_fee_usd,
          subscription_fee_usd |-> subscription_fee_usd,
          premium_fee_usd      |-> premium_fee_usd ]

\* lines 168-177: result['fee_breakdown']
SponsorshipFeeBreakdown(deal, f) ==
    LET total == f.transaction_fee_usd + f.deployment_fee_usd + f.subscription_fee_usd
                     + f.premium_fee_usd
    IN  [ deal_value_usd           |-> deal,
          transaction_fee_usd      |-> f.transaction_fee_usd,
          deployment_fee_usd       |-> f.deployment_fee_usd,
          subscription_fee_usd     |-> f.subscription_fee_usd,
          premium_fee_usd          |-> f.premium_fee_usd,
          total_effective_fee_usd  |-> total,
          effective_fee_percentage |-> PercentOf(total, deal) ]

\* a slip in the order: the premium fee recorded first, the deployment fee last
FeeWritesPremiumFirst(user_id, user_type, f) ==
    (IF f.premium_fee_usd > 0
     THEN << [ op |-> "record_premium_fee",
               args |-> [ user_id |-> user_id, user_type |-> user_type,
                          feature_name |-> "sponsorship_premium",
                          fee_usd |-> f.premium_fee_usd ] ] >>
     ELSE << >>)
    \o (IF f.subscription_fee_usd > 0
        THEN << [ op |-> "record_subscription_fee",
                  args |-> [ user_id |-> user_id, user_type |-> user_type,
                             plan_name |-> "monitoring",
                             fee_usd |-> f.subscription_fee_usd ] ] >>
        ELSE << >>)
    \o << [ op |-> "record_deployment_fee",
            args |-> [ user_id |-> user_id, user_type |-> user_type,
                       contract_type |-> "sponsorship", fee_usd |-> f.deployment_fee_usd ] ] >>

\* lines 193-216: the store calls of _record_fee_analytics, in their order
FeeWrites(user_id, user_type, f) ==
    << [ op |-> "record_deployment_fee",
         args |-> [ user_id |-> user_id, user_type |-> user_type,
                    contract_type |-> "sponsorship", fee_usd |-> f.deployment_fee_usd ] ] >>
    \o (IF f.subscription_fee_usd > 0
        THEN << [ op |-> "record_subscription_fee",
                  args |-> [ user_id |-> user_id, user_type |-> user_type,
                             plan_name |-> "monitoring",
                             fee_usd |-> f.subscription_fee_usd ] ] >>
        ELSE << >>)
    \o (IF f.premium_fee_usd > 0
        THEN << [ op |-> "record_premium_fee",
                  args |-> [ user_id |-> user_id, user_type |-> user_type,
                             feature_name |-> "sponsorship_premium",
                             fee_usd |-> f.premium_fee_usd ] ] >>
        ELSE << >>)

\* the item one of these store calls puts
FeeWriteItem(w, id, created_at, now) ==
    IF w.op = "record_deployment_fee"
    THEN DeploymentFeeItem(id, created_at, w.args.user_id, w.args.user_type,
                           w.args.contract_type, w.args.fee_usd)
    ELSE IF w.op = "record_subscription_fee"
    THEN SubscriptionFeeItem(id, created_at, now, w.args.user_id, w.args.plan_name,
                             w.args.fee_usd)
    ELSE PremiumFeeItem(id, created_at, w.args.user_id, w.args.feature_name,
                        w.args.fee_usd)

RECURSIVE PutFeeWrites(_, _, _, _, _, _)
\* the table after the first done store calls of writes, ids from id0 + 1 on
PutFeeWrites(tbl, writes, done, id0, created_at, now) ==
    IF done = 0 THEN tbl
    ELSE PutItem(PutFeeWrites(tbl, writes, done - 1, id0, created_at, now),
                 FeeWriteItem(writes[done], id0 + done, created_at, now))

\* the fee amounts _record_fee_analytics is given: the literals of lines 126-128
\* and, for the two optional fees, one amount above 0 and the amount 0
FeeAmounts ==
    { [ transaction_fee_usd |-> USD(3, 0), deployment_fee_usd |-> USD(12, 50),
        subscription_fee_usd |-> s, premium_fee_usd |-> p ] :
      s \in { 0, USD(15, 0) }, p \in { 0, USD(5, 0) } }

\* lines 185-224 on their own.  The store calls made are the first of FeeWrites
\* up to the one that fails; each reads the clock when it is made, so a premium
\* fee recorded after a subscription is created at the subscription's second
\* reading.  The identifiers are fresh, so no put_item replaces an item.
\* Nothing is raised: the except of lines 222-224 logs and returns.
RecordFeeAnalytics(user_id, user_type, f) ==
    \E now \in LaterReads(clock) :
        LET writes == FeeWrites(StrInt(user_id), user_type, f)
        IN  \E done \in 0..Len(writes) :
               LET write_failed == done < Len(writes)
                   made == IF write_failed THEN done + 1 ELSE done
                   attempted == [ k \in 1..made |-> writes[k].op ]
                   subscribed == \E k \in 1..made :
                                     writes[k].op = "record_subscription_fee"
                   created_at(k) ==
                       IF \E j \in 1..(k - 1) : writes[j].op = "record_subscription_fee"
                       THEN now ELSE clock
                   written == [ k \in 1..done |->
                                  FeeWriteItem(writes[k], next_id + k, created_at(k), now) ]
               IN  /\ table' = table \cup { written[k] : k \in 1..done }
                   /\ next_id' = next_id + made
                   /\ clock' = IF subscribed THEN now ELSE clock
                   /\ last' = IF write_failed
                              THEN Raised(writes[made].op, writes[made].args)
                              ELSE Returned(writes[made].op, writes[made].args,
                                            written[made], FALSE)
                   /\ response' = [ op |-> "_record_fee_analytics",
                                    args |-> [ user_id |-> user_id, user_type |-> user_type,
                                               fees |-> f ],
                                    outcome |-> "returned",
                                    attempted |-> attempted, written |-> written,
                                    fee_write_failed |-> write_failed ]
                   /\ UNCHANGED fee_vars

\* a slip in the handler of lines 222-224: the failure of a store call raised again
RecordFeeAnalyticsReraises(write_failed) == write_failed

\* lines 222-224: _record_fee_analytics logs the failure of a store call and returns
RecordFeeAnalyticsRaises(write_failed) == FALSE

\* what create_sponsorship_opportunity leaves behind
SponsorshipRaised(args, error, task_created, attempted, write_failed) ==
    [ op |-> "create_sponsorship_opportunity", args |-> args,
      outcome |-> "raised", error |-> error,
      task_created |-> task_created, attempted |-> attempted,
      fee_write_failed |-> write_failed ]

SponsorshipReturned(args, deal, f, attempted, write_failed) ==
    [ op |-> "create_sponsorship_opportunity", args |-> args,
      outcome |-> "returned",
      result |-> [ success |-> TRUE,
                   athlete |-> [ athlete_id |-> args.athlete_id ],
                   blockchain_task |-> [ description |-> args.task_data.description,
                                         amount_eth |-> args.task_data.amount_eth ],
                   task_data |-> args.task_data,
                   fee_breakdown |-> SponsorshipFeeBreakdown(deal, f) ],
      task_created |-> TRUE, attempted |-> attempted,
      fee_write_failed |-> write_failed ]

\* a slip in the order of the steps: the fees recorded first, the blockchain
\* task created after them
CreateSponsorshipOpportunityFeesFirst(sponsor_id, athlete_id, task_data) ==
    \E task_ok \in BOOLEAN, now \in LaterReads(clock) :
        LET args == [ sponsor_id |-> sponsor_id, athlete_id |-> athlete_id,
                      task_data |-> task_data ]
            deal == DealValueUsd(task_data.amount_eth)
            f == SponsorshipFees(deal)
            writes == FeeWrites(StrInt(athlete_id), "athlete", f)
            made == Len(writes)
            attempted == [ k \in 1..made |-> writes[k].op ]
        IN  /\ deal # 0 /\ IsDigits(athlete_id)
            /\ table' = PutFeeWrites(table, writes, made, next_id, clock, now)
            /\ next_id' = next_id + made
            /\ clock' = now
            /\ last' = Returned(writes[made].op, writes[made].args,
                                FeeWriteItem(writes[made], next_id + made, clock, now),
                                FALSE)
            /\ response' = IF task_ok
                           THEN SponsorshipReturned(args, deal, f, attempted, FALSE)
                           ELSE SponsorshipRaised(args, "RequestException", FALSE,
                                                  attempted, FALSE)
            /\ UNCHANGED fee_vars

\* lines 113-183.  The store calls made are the first of FeeWrites up to the
\* one that fails; a store call that fails has drawn its identifier already.
CreateSponsorshipOpportunity(sponsor_id, athlete_id, task_data) ==
    \E profile_ok \in BOOLEAN, task_ok \in BOOLEAN, now \in LaterReads(clock) :
        LET args == [ sponsor_id |-> sponsor_id, athlete_id |-> athlete_id,
                      task_data |-> task_data ]
            deal == DealValueUsd(task_data.amount_eth)
            user_id == StrInt(athlete_id)
        IN  IF ~profile_ok
            THEN /\ response' = SponsorshipRaised(args, "RequestException", FALSE, << >>, FALSE)
                 /\ UNCHANGED <<store_vars, fee_vars>>
            ELSE IF deal = 0
            THEN /\ response' = SponsorshipRaised(args, "ZeroDivisionError", FALSE, << >>, FALSE)
                 /\ UNCHANGED <<store_vars, fee_vars>>
            ELSE IF ~task_ok
            THEN /\ response' = SponsorshipRaised(args, "RequestException", FALSE, << >>, FALSE)
                 /\ UNCHANGED <<store_vars, fee_vars>>
            ELSE IF ~IsDigits(athlete_id)
            THEN /\ response' = SponsorshipRaised(args, "ValueError", TRUE, << >>, FALSE)
                 /\ UNCHANGED <<store_vars, fee_vars>>
            ELSE LET f == SponsorshipFees(deal)
                     writes == FeeWrites(user_id, "athlete", f)
                 IN  \E done \in 0..Len(writes) :
                        LET write_failed == done < Len(writes)
                            made == IF write_failed THEN done + 1 ELSE done
                            attempted == [ k \in 1..made |-> writes[k].op ]
                            subscribed == \E k \in 1..made :
                                              writes[k].op = "record_subscription_fee"
                        IN  /\ table' = PutFeeWrites(table, writes, done, next_id, clock, now)
                            /\ next_id' = next_id + made
                            /\ clock' = IF subscribed THEN now ELSE clock
                            /\ last' = IF write_failed
                                       THEN Raised(writes[made].op, writes[made].args)
                                       ELSE Returned(writes[made].op, writes[made].args,
                                                     FeeWriteItem(writes[made], next_id + made,
                                                                  clock, now),
                                                     FALSE)
                            /\ response' =
                                  IF RecordFeeAnalyticsRaises(write_failed)
                                  THEN SponsorshipRaised(args, "ClientError", TRUE,
                                                         attempted, write_failed)
                                  ELSE SponsorshipReturned(args, deal, f, attempted,
                                                           write_failed)
                            /\ UNCHANGED fee_vars

----------------------------------------------------------------------------
(* main.py: the /subscribe endpoint *)

SubscribePlans == { "monitoring", "premium", "quarterly" }

\* main.py lines 247-258: the days to the next billing and the monthly fee
SubscribeBilling(billing_cycle) ==
    IF billing_cycle = "monthly" THEN [days |-> 30, monthly_fee |-> USD(15, 0)]
    ELSE IF billing_cycle = "quarterly" THEN [days |-> 90, monthly_fee |-> USD(12, 50)]
    ELSE IF billing_cycle = "annual" THEN [days |-> 365, monthly_fee |-> USD(10, 0)]
    ELSE [days |-> 30, monthly_fee |-> USD(15, 0)]

\* main.py lines 240-285 with integration_handler.py lines 226-249 and
\* dynamodb_service.py lines 176-206.  The endpoint reads the clock, the store
\* operation reads it again for created_at and for end_date; the store is
\* given plan_name, and the billing cycle never reaches it.  A failure of the
\* put is raised again by the handler and answered with status 500.
SubscribeUser(user_id, user_type, plan_name, billing_cycle) ==
    \E created_at \in LaterReads(clock), ok \in BOOLEAN :
      \E now \in { t \in LaterReads(created_at) : t <= clock + 1 } :
        LET billing == SubscribeBilling(billing_cycle)
            next_billing == PlusDays(clock, billing.days)
            sub_id == next_id + 1
            item == SubscriptionFeeItem(sub_id, created_at, now, StrInt(user_id),
                                        plan_name, billing.monthly_fee)
            args == [ user_id |-> user_id, user_type |-> user_type,
                      plan_name |-> plan_name, billing_cycle |-> billing_cycle ]
            store_args == [ user_id |-> StrInt(user_id), user_type |-> user_type,
                            plan_name |-> plan_name, fee_usd |-> billing.monthly_fee ]
        IN  /\ next_id' = sub_id
            /\ clock' = now
            /\ table' = IF ok THEN PutItem(table, item) ELSE table
            /\ last' = IF ok THEN Returned("record_subscription_fee", store_args, item, FALSE)
                       ELSE Raised("record_subscription_fee", store_args)
            /\ response' =
                  IF ok
                  THEN [ op |-> "subscribe_user", args |-> args, outcome |-> "returned",
                         result |-> [ success |-> TRUE,
                                      user_id |-> user_id,
                                      user_type |-> user_type,
                                      plan_name |-> plan_name,
                                      monthly_fee_usd |-> billing.monthly_fee,
                                      billing_cycle |-> billing_cycle,
                                      next_billing_date |-> next_billing,
                                      subscription_status |-> "active" ],
                         record |-> item ]
                  ELSE [ op |-> "subscribe_user", args |-> args, outcome |-> "raised",
                         error |-> "HTTPException", status_code |-> 500 ]
            /\ UNCHANGED fee_vars

----------------------------------------------------------------------------
(* Specifications *)

Init ==
    /\ fee_structure = FeeStructure
    /\ call = [op |-> "none"]
    /\ table = {}
    /\ clock = 0
    /\ next_id = 0
    /\ last = [op |-> "none", outcome |-> "none", store_failed |-> FALSE]
    /\ response = [op |-> "none", outcome |-> "none"]

\* the fee calculator on its own
FeeNext ==
    \/ \E deal \in DealValues : CalculateDealFees(deal)
    \/ \E billing_cycle \in BillingCycles : CalculateSubscriptionFee(billing_cycle)
    \/ \E fee_usd \in PremiumFees : ValidatePremiumFeatureFee(fee_usd)
    \/ Tick

SpecFee == Init /\ [][FeeNext]_vars

\* calculate_deal_fees under each configuration of FeeStructures
InitConfigured ==
    /\ fee_structure \in FeeStructures
    /\ call = [op |-> "none"]
    /\ table = {}
    /\ clock = 0
    /\ next_id = 0
    /\ last = [op |-> "none", outcome |-> "none", store_failed |-> FALSE]
    /\ response = [op |-> "none", outcome |-> "none"]

DealFeeNext == \E deal \in DealValues : CalculateDealFees(deal)

SpecFeeConfigured == InitConfigured /\ [][DealFeeNext]_vars

\* the ledger store: every operation of DynamoDBService
Next ==
    \/ \E u \in OneUser, e \in Emails, r \in Roles : CreateUser(u, e, r)
    \/ \E u \in OneUser : GetUser(u)
    \/ IdsLeft /\ \E u \in OneUser, a \in OneWallet, sp \in SponsorWallets, c \in ContractAddresses,
          t \in ContractTerms : CreateContract(u, a, sp, c, t)
    \/ \E id \in Ids : GetContract(id)
    \/ \E u \in OneUser : GetUserContracts(u)
    \/ IdsLeft /\ \E id \in Ids, h \in TxHashes, ty \in TxTypes, am \in TxAmounts, w \in OneWallet :
          LogTransaction(id, h, ty, am, w)
    \/ \E id \in Ids : GetContractTransactions(id)
    \/ \E w \in OneWallet, l \in Limits : GetWalletTransactions(w, l)
    \/ IdsLeft /\ \E u \in OneUser, f \in DeploymentFees :
          RecordDeploymentFee(u, "athlete", "sponsorship", f)
    \/ IdsLeft /\ \E u \in OneUser, pl \in OnePlan, f \in SubscriptionFees :
          RecordSubscriptionFee(u, "athlete", pl, f)
    \/ IdsLeft /\ \E u \in OneUser, ft \in Features, f \in PremiumFeatureFees :
          RecordPremiumFee(u, "athlete", ft, f)
    \/ GetFeeAnalytics
    \/ \E t0 \in Times, t1 \in Times, e \in EntityTypes :
          t0 <= t1 /\ GetTransactionsByDateRange(t0, t1, e)
    \/ \E id \in Ids : GetContractForCompliance(id)
    \/ Tick

Spec == Init /\ [][Next]_vars

\* users and their contracts
ContractNext ==
    \/ \E u \in Users, e \in Emails, r \in Roles : CreateUser(u, e, r)
    \/ IdsLeft /\ \E u \in Users, a \in Wallets, sp \in SponsorWallets, c \in ContractAddresses,
          t \in ContractTerms : CreateContract(u, a, sp, c, t)
    \/ \E id \in Ids : GetContract(id)
    \/ \E u \in Users : GetUserContracts(u)
    \/ Tick

SpecContracts == Init /\ [][ContractNext]_vars

\* the two lookups by key, get_user and get_contract, and what they look up
LookupNext ==
    \/ \E u \in OneUser, e \in Emails, r \in Roles : CreateUser(u, e, r)
    \/ \E u \in Users : GetUser(u)
    \/ IdsLeft /\ \E u \in OneUser, a \in OneWallet, sp \in SponsorWallets,
          c \in ContractAddresses, t \in ContractTerms : CreateContract(u, a, sp, c, t)
    \/ \E id \in Ids : GetContract(id)
    \/ Tick

SpecLookups == Init /\ [][LookupNext]_vars

\* the users, created and created again
UserNext ==
    \/ \E u \in Users, e \in Emails, r \in UserRoles : CreateUser(u, e, r)
    \/ \E u \in Users : GetUser(u)
    \/ Tick

SpecUsers == Init /\ [][UserNext]_vars

\* contracts written, read back, and the transactions logged under them
ContractReadNext ==
    \/ IdsLeft /\ \E u \in Users, a \in Wallets, sp \in SponsorWallets, c \in ContractAddresses,
          t \in ContractTerms : CreateContract(u, a, sp, c, t)
    \/ \E id \in Ids : GetContract(id)
    \/ IdsLeft /\ \E id \in Ids, h \in TxHashes, ty \in TxTypes, am \in TxAmounts, w \in OneWallet :
          LogTransaction(id, h, ty, am, w)
    \/ Tick

SpecContractReads == Init /\ [][ContractReadNext]_vars

\* the records listed in the global index by kind and creation time, and the
\* range query over them
RangeNext ==
    \/ IdsLeft /\ \E u \in OneUser, f \in DeploymentFees :
          RecordDeploymentFee(u, "athlete", "sponsorship", f)
    \/ IdsLeft /\ \E u \in OneUser, pl \in OnePlan, f \in SubscriptionFees :
          RecordSubscriptionFee(u, "athlete", pl, f)
    \/ IdsLeft /\ \E u \in OneUser, ft \in Features, f \in PremiumFeatureFees :
          RecordPremiumFee(u, "athlete", ft, f)
    \/ IdsLeft /\ \E id \in Ids, h \in TxHashes, ty \in TxTypes, am \in TxAmounts, w \in OneWallet :
          LogTransaction(id, h, ty, am, w)
    \/ \E t0 \in Times, t1 \in Times, e \in EntityTypes :
          t0 <= t1 /\ GetTransactionsByDateRange(t0, t1, e)
    \/ Tick

SpecRanges == Init /\ [][RangeNext]_vars

\* the fee analytics over a table that holds records of every kind
AnalyticsIdsLeft == next_id < MaxAnalyticsIds

AnalyticsNext ==
    \/ \E u \in OneUser, e \in Emails, r \in Roles : CreateUser(u, e, r)
    \/ AnalyticsIdsLeft /\ \E u \in OneUser, a \in OneWallet, sp \in SponsorWallets,
          c \in ContractAddresses, t \in ContractTerms : CreateContract(u, a, sp, c, t)
    \/ AnalyticsIdsLeft /\ \E id \in OneContractId, h \in TxHashes, ty \in TxTypes, am \in TxAmounts,
          w \in OneWallet : LogTransaction(id, h, ty, am, w)
    \/ AnalyticsIdsLeft /\ \E u \in OneUser, f \in DeploymentFees :
          RecordDeploymentFee(u, "athlete", "sponsorship", f)
    \/ AnalyticsIdsLeft /\ \E u \in OneUser, pl \in OnePlan, f \in SubscriptionFees :
          RecordSubscriptionFee(u, "athlete", pl, f)
    \/ AnalyticsIdsLeft /\ \E u \in OneUser, ft \in Features, f \in PremiumFeatureFees :
          RecordPremiumFee(u, "athlete", ft, f)
    \/ GetFeeAnalytics

SpecAnalytics == Init /\ [][AnalyticsNext]_vars

\* the records listed under a wallet, and the transactions read by wallet
WalletNext ==
    \/ IdsLeft /\ \E u \in OneUser, a \in Wallets, sp \in SponsorWallets, c \in ContractAddresses,
          t \in ContractTerms : CreateContract(u, a, sp, c, t)
    \/ IdsLeft /\ \E id \in OneContractId, h \in TxHashes, ty \in TxTypes, am \in TxAmounts,
          w \in Wallets : LogTransaction(id, h, ty, am, w)
    \/ \E w \in Wallets, l \in Limits : GetWalletTransactions(w, l)
    \/ Tick

SpecWallets == Init /\ [][WalletNext]_vars

\* the sponsorship workflow; one call draws two identifiers at most (the
\* premium fee of a sponsorship is 0.00)
SponsorshipIdsLeft == next_id + 2 <= MaxSponsorshipIds

SponsorshipNext ==
    \/ SponsorshipIdsLeft /\ \E sp \in SponsorIds, a \in AthleteIds, am \in AmountsEth :
          CreateSponsorshipOpportunity(sp, a, [description |-> "d", amount_eth |-> am])
    \/ GetFeeAnalytics
    \/ Tick

SpecSponsorship == Init /\ [][SponsorshipNext]_vars

\* the /subscribe endpoint on its own
SubscribeNext ==
    \/ IdsLeft /\ \E pl \in SubscribePlans, bc \in BillingCycles :
          SubscribeUser("7", "athlete", pl, bc)
    \/ Tick

SpecSubscribe == Init /\ [][SubscribeNext]_vars

\* _record_fee_analytics on its own; one call draws three identifiers at most
RecordingIdsLeft == next_id + 3 <= MaxRecordingIds

RecordingNext ==
    \/ RecordingIdsLeft /\ \E f \in FeeAmounts : RecordFeeAnalytics("7", "athlete", f)
    \/ Tick

SpecRecording == Init /\ [][RecordingNext]_vars

\* the three fee-recording operations on their own
FeeWriteNext ==
    \/ IdsLeft /\ \E u \in Users, f \in DeploymentFees :
          RecordDeploymentFee(u, "athlete", "sponsorship", f)
    \/ IdsLeft /\ \E u \in Users, pl \in OnePlan, f \in SubscriptionFees :
          RecordSubscriptionFee(u, "athlete", pl, f)
    \/ IdsLeft /\ \E u \in Users, ft \in Features, f \in PremiumFeatureFees :
          RecordPremiumFee(u, "athlete", ft, f)
    \/ Tick

SpecFeeWrites == Init /\ [][FeeWriteNext]_vars

\* every operation that writes to the table
WriteNext ==
    \/ \E u \in OneUser, e \in Emails, r \in UserRoles : CreateUser(u, e, r)
    \/ IdsLeft /\ \E u \in OneUser, a \in OneWallet, sp \in SponsorWallets, c \in ContractAddresses,
          t \in ContractTerms : CreateContract(u, a, sp, c, t)
    \/ IdsLeft /\ \E id \in Ids, h \in TxHashes, ty \in TxTypes, am \in TxAmounts, w \in OneWallet :
          LogTransaction(id, h, ty, am, w)
    \/ IdsLeft /\ \E u \in OneUser, f \in DeploymentFees :
          RecordDeploymentFee(u, "athlete", "sponsorship", f)
    \/ IdsLeft /\ \E u \in OneUser, pl \in OnePlan, f \in SubscriptionFees :
          RecordSubscriptionFee(u, "athlete", pl, f)
    \/ IdsLeft /\ \E u \in OneUser, ft \in Features, f \in PremiumFeatureFees :
          RecordPremiumFee(u, "athlete", ft, f)
    \/ Tick

SpecWrites == Init /\ [][WriteNext]_vars

\* the three kinds of fee records and the queries over them
FeeRecordNext ==
    \/ IdsLeft /\ \E u \in Users, f \in DeploymentFees :
          RecordDeploymentFee(u, "athlete", "sponsorship", f)
    \/ IdsLeft /\ \E u \in Users, pl \in { "monthly", "annual" }, f \in SubscriptionFees :
          RecordSubscriptionFee(u, "athlete", pl, f)
    \/ IdsLeft /\ \E u \in Users, ft \in Features, f \in PremiumFeatureFees :
          RecordPremiumFee(u, "athlete", ft, f)
    \/ GetFeeAnalytics
    \/ \E t0 \in Times, t1 \in Times, e \in { "FEE", "SUB", "PREMIUM" } :
          t0 <= t1 /\ GetTransactionsByDateRange(t0, t1, e)
    \/ Tick

SpecFeeRecords == Init /\ [][FeeRecordNext]_vars

----------------------------------------------------------------------------
(* Properties of the fee calculator, under SpecFee *)

IsDealCall == call.op = "calculate_deal_fees"

FlatFees == fee_structure.deployment_fee_usd + fee_structure.subscription_fee_monthly_usd

\* C1: for every deal value with 0 < deal_value < 2000, the unrounded effective
\* percent calculate_deal_fees ends with is at most max_effective_fee_percent.
\* The code breaks it: below 343.75 the 3% tier leaves the deal over the cap.
C1_CapHeldBelow2000 ==
    (IsDealCall /\ 0 < call.arg /\ call.arg < USD(2000, 0))
        => /\ call.outcome = "ok"
           /\ PercentLE(call.locals.effective_percent,
                        fee_structure.max_effective_fee_percent)

\* C2: calculate_deal_fees fails with InvalidInput and returns no breakdown for
\* every deal value <= 0.  The code breaks it: a negative deal value returns a
\* breakdown, and zero raises ZeroDivisionError from the division of line 55.
C2_InvalidInputRejected ==
    (IsDealCall /\ call.arg <= 0)
        => (call.outcome = "InvalidInput" /\ call.result = None)

\* C3: for every deal value > 0 the total fee returned is at least
\* deployment_fee_usd + subscription_fee_usd, the transaction and premium fees
\* being non-negative before and after the cap adjustment.
C3_TotalAtLeastFlatFees ==
    (IsDealCall /\ call.arg > 0)
        => /\ call.outcome = "ok"
           /\ call.result.total_effective_fee_usd >= FlatFees
           /\ call.locals.total_fee >= FlatFees
           /\ call.locals.transaction_fee >= 0
           /\ call.locals.premium_fee >= 0
           /\ call.result.transaction_fee_usd >= 0
           /\ call.result.premium_fee_usd >= 0
           /\ UnadjustedFees(call.arg, fee_structure).transaction_fee >= 0
           /\ UnadjustedFees(call.arg, fee_structure).total_fee >= FlatFees

\* a positive deal whose transaction fee the cap adjustment lowered
C3_Witness ==
    /\ IsDealCall /\ call.arg > 0 /\ call.outcome = "ok"
    /\ call.locals.adjusted
    /\ call.locals.transaction_fee
          < UnadjustedFees(call.arg, fee_structure).transaction_fee

\* C4: calculate_deal_fees(100) is adjusted by the <1000 tier: the transaction
\* fee becomes min(4.00, 3.00) = 3.00, the total 30.50 and the effective percent
\* 30.5, still above the 11% cap.
C4_Deal100 ==
    (IsDealCall /\ call.arg = USD(100, 0))
        => /\ call.outcome = "ok"
           /\ UnadjustedFees(call.arg, fee_structure).transaction_fee = USD(4, 0)
           /\ call.locals.adjusted
           /\ call.locals.transaction_fee = USD(3, 0)
           /\ call.result.transaction_fee_usd = USD(3, 0)
           /\ call.result.total_effective_fee_usd = USD(30, 50)
           /\ call.result.effective_fee_percentage = 305
           /\ PercentGT(call.locals.effective_percent,
                        fee_structure.max_effective_fee_percent)

C4_Witness ==
    /\ IsDealCall /\ call.arg = USD(100, 0) /\ call.outcome = "ok"
    /\ call.locals.adjusted

\* C5 as claimed: calculate_deal_fees(1000) applies no adjustment and returns
\* transaction_fee 40.00, total 67.50 and effective_percent 6.75 (675 hundredths
\* of a percent; the model holds the returned percentage in tenths).
C5_Deal1000Returns675 ==
    (IsDealCall /\ call.arg = USD(1000, 0))
        => /\ call.outcome = "ok"
           /\ ~call.locals.adjusted
           /\ call.result.transaction_fee_usd = USD(40, 0)
           /\ call.result.total_effective_fee_usd = USD(67, 50)
           /\ call.result.effective_fee_percentage * 10 = 675

\* C5 as amended: calculate_deal_fees(1000) applies no adjustment and returns
\* transaction_fee 40.00 and total 67.50; the unrounded effective percent is
\* 6.75 (27/400 of the deal) and the returned one is round(6.75, 1) = 6.8.
C5_Deal1000Returns68 ==
    (IsDealCall /\ call.arg = USD(1000, 0))
        => /\ call.outcome = "ok"
           /\ ~call.locals.adjusted
           /\ call.result.transaction_fee_usd = USD(40, 0)
           /\ call.result.total_effective_fee_usd = USD(67, 50)
           /\ call.locals.effective_percent.num * 400
                 = 27 * call.locals.effective_percent.den
           /\ call.result.effective_fee_percentage = 68

C5_Witness ==
    /\ IsDealCall /\ call.arg = USD(1000, 0) /\ call.outcome = "ok"
    /\ ~call.locals.adjusted

\* C21 (under SpecFeeConfigured): when the unadjusted effective percent is over
\* the cap, calculate_deal_fees lowers the transaction fee to min(fee, 3% of
\* the deal) below 1000, to min(fee, 3.5% of the deal) from 1000 to below 2000,
\* and leaves it from 2000 on; total and effective percent are recomputed once
\* from that fee, whether or not the cap then holds; otherwise nothing changes.
C21_TierAdjustmentOnce ==
    (IsDealCall /\ call.outcome = "ok")
        => LET deal == call.arg
               u == UnadjustedFees(deal, fee_structure)
               l == call.locals
               three == (deal * 3) \div 100
               three_and_half == (deal * 7) \div 200
           IN  IF PercentGT(u.effective_percent, fee_structure.max_effective_fee_percent)
               THEN /\ deal < USD(1000, 0)
                          => l.transaction_fee = Min(u.transaction_fee, three)
                    /\ (USD(1000, 0) <= deal /\ deal < USD(2000, 0))
                          => l.transaction_fee = Min(u.transaction_fee, three_and_half)
                    /\ deal >= USD(2000, 0) => l.transaction_fee = u.transaction_fee
                    /\ l.total_fee = l.transaction_fee + u.deployment_fee
                                         + u.subscription_fee + u.premium_fee
                    /\ l.effective_percent = PercentOf(l.total_fee, deal)
               ELSE /\ l.transaction_fee = u.transaction_fee
                    /\ l.total_fee = u.total_fee
                    /\ l.effective_percent = u.effective_percent

\* a deal of the 3.5% tier, adjusted once and still over the cap
C21_Witness ==
    /\ IsDealCall /\ call.outcome = "ok"
    /\ USD(1000, 0) <= call.arg /\ call.arg < USD(2000, 0)
    /\ call.locals.adjusted
    /\ call.locals.transaction_fee * 200 = call.arg * 7
    /\ call.locals.transaction_fee < UnadjustedFees(call.arg, fee_structure).transaction_fee
    /\ PercentGT(call.locals.effective_percent, fee_structure.max_effective_fee_percent)

\* C22 (under SpecFeeConfigured): whether or not the cap adjustment ran, the
\* deployment, subscription and premium fees of every result are the configured
\* deployment fee, the configured monthly subscription fee and 0, and no call
\* changes the FeeStructure.
C22_AdjustmentTouchesOnlyTransactionFee ==
    /\ [](  (IsDealCall /\ call.outcome = "ok")
              => /\ call.result.deployment_fee_usd = fee_structure.deployment_fee_usd
                 /\ call.result.subscription_fee_usd
                        = fee_structure.subscription_fee_monthly_usd
                 /\ call.result.premium_fee_usd = 0
                 /\ call.locals.total_fee
                        = call.locals.transaction_fee + fee_structure.deployment_fee_usd
                            + fee_structure.subscription_fee_monthly_usd )
    /\ [][fee_structure' = fee_structure]_vars

\* an adjusted deal under the default structure: the transaction fee was cut
\* to 3% and the result still carries 12.50, 15.00 and 0
C22_Witness ==
    /\ IsDealCall /\ call.outcome = "ok"
    /\ fee_structure = FeeStructure
    /\ call.locals.adjusted
    /\ call.locals.transaction_fee * 100 = call.arg * 3
    /\ call.result.deployment_fee_usd = USD(12, 50)
    /\ call.result.subscription_fee_usd = USD(15, 0)
    /\ call.result.premium_fee_usd = 0

\* the unadjusted effective percent of the call is over the cap, yet rounds to
\* the cap at 1 decimal
RoundsToCap ==
    LET u == UnadjustedFees(call.arg, fee_structure)
    IN  /\ PercentGT(u.effective_percent, fee_structure.max_effective_fee_percent)
        /\ Round1(u.effective_percent) = fee_structure.max_effective_fee_percent * 10

\* C23: the cap adjustment is decided on the unrounded effective percent, so a
\* deal whose unrounded percent is over the cap but rounds to the cap is still
\* adjusted; the retention score is decided on the unrounded percent too, and
\* the returned amounts and percent are the locals rounded to 2 and 1 decimals.
C23_DecisionOnUnroundedPercent ==
    (IsDealCall /\ call.outcome = "ok")
        => LET u == UnadjustedFees(call.arg, fee_structure)
               l == call.locals
               r == call.result
           IN  /\ l.adjusted <=> PercentGT(u.effective_percent,
                                           fee_structure.max_effective_fee_percent)
               /\ RoundsToCap => l.adjusted
               /\ r.retention_score = "High" <=> PercentLT(l.effective_percent, 11)
               /\ r.transaction_fee_usd = Round2(l.transaction_fee)
               /\ r.total_effective_fee_usd = Round2(l.total_fee)
               /\ r.effective_fee_percentage = Round1(l.effective_percent)

\* 392.85: 11.00013% before rounding, 11.0 after, and adjusted to 3%
C23_Witness ==
    /\ IsDealCall /\ call.outcome = "ok"
    /\ RoundsToCap
    /\ call.locals.adjusted
    /\ call.locals.transaction_fee * 100 = call.arg * 3

\* C30 (default FeeStructure): the cap adjustment fires only for deals below
\* 1000; for every deal value >= 1000 the unadjusted effective percent is at
\* most the 11% cap, the 3.5% tier is not entered, and the transaction fee is
\* exactly 4% of the deal value (returned rounded to cents, as every amount).
C30_NoAdjustmentFrom1000 ==
    IsDealCall
        => /\ (call.outcome = "ok" /\ call.locals.adjusted) => call.arg < USD(1000, 0)
           /\ call.arg >= USD(1000, 0)
                => /\ call.outcome = "ok"
                   /\ PercentLE(UnadjustedFees(call.arg, fee_structure).effective_percent,
                                fee_structure.max_effective_fee_percent)
                   /\ ~call.locals.adjusted
                   /\ call.locals.transaction_fee * 100 = call.arg * 4
                   /\ call.result.transaction_fee_usd
                         = Round2((call.arg * 4) \div 100)

\* a deal of the 3.5% tier's range, left at 4%
C30_Witness ==
    /\ IsDealCall /\ call.outcome = "ok"
    /\ fee_structure = FeeStructure
    /\ USD(1000, 0) <= call.arg /\ call.arg < USD(2000, 0)
    /\ ~call.locals.adjusted
    /\ call.locals.transaction_fee * 100 = call.arg * 4

\* C6: validate_premium_feature_fee(x) is true exactly when 5.00 <= x <= 10.00,
\* both bounds included, and false for every other value.
C6_PremiumFeeRange ==
    call.op = "validate_premium_feature_fee"
        => /\ call.result \in BOOLEAN
           /\ call.result <=> (USD(5, 0) <= call.arg /\ call.arg <= USD(10, 0))

\* the upper bound itself is accepted
C6_Witness ==
    /\ call.op = "validate_premium_feature_fee"
    /\ call.arg = USD(10, 0)
    /\ call.result = TRUE

\* the tier table of C7: monthly fee, periods and days of a cycle
TierTable(billing_cycle) ==
    IF billing_cycle = "quarterly"
    THEN [monthly_fee |-> USD(12, 50), periods |-> 3, days |-> 90]
    ELSE IF billing_cycle = "annual"
    THEN [monthly_fee |-> USD(10, 0), periods |-> 12, days |-> 365]
    ELSE [monthly_fee |-> USD(15, 0), periods |-> 1, days |-> 30]

\* C7: calculate_subscription_fee follows the tier table for every billing
\* cycle: monthly the base rate over 1 period ending in 30 days, quarterly a
\* discounted rate over 3 periods ending in 90 days, annual a further
\* discounted rate over 12 periods ending in 365 days, period total = monthly
\* fee x periods; any other value gives the monthly fees and date, and no error.
C7_SubscriptionTiers ==
    call.op = "calculate_subscription_fee"
        => LET t == TierTable(call.arg)
               r == call.result
           IN  /\ call.outcome = "ok"
               /\ r.monthly_fee_usd = t.monthly_fee
               /\ r.total_period_fee_usd = t.monthly_fee * t.periods
               /\ r.next_billing_date = [from |-> call.now, days |-> t.days]
               /\ TierTable("annual").monthly_fee < TierTable("quarterly").monthly_fee
               /\ TierTable("quarterly").monthly_fee < TierTable("monthly").monthly_fee
               /\ TierTable("monthly").monthly_fee
                     = fee_structure.subscription_fee_monthly_usd

\* an unrecognised cycle answered as a monthly one
C7_Witness ==
    /\ call.op = "calculate_subscription_fee"
    /\ call.arg \notin { "monthly", "quarterly", "annual" }
    /\ call.outcome = "ok"
    /\ call.result.total_period_fee_usd = USD(15, 0)
    /\ call.result.next_billing_date.days = 30

----------------------------------------------------------------------------
(* Properties of the ledger store *)

IsFeeRecordCall ==
    last.op \in { "record_deployment_fee", "record_subscription_fee", "record_premium_fee" }

\* C8 (under SpecFeeRecords): every fee record written by record_deployment_fee,
\* record_subscription_fee or record_premium_fee is stored under the paying user
\* and carries both index entries, the global kind+creation-time one and the
\* per-user one.  The code breaks it: a deployment fee is keyed FEE#<id>, and a
\* subscription fee carries no GSI1 entry.
C8_FeeRecordUnderUserWithBothIndexes ==
    (IsFeeRecordCall /\ last.outcome = "returned")
        => LET item == last.result
           IN  /\ item \in table
               /\ item.PK = <<"USER", last.args.user_id>>
               /\ HasAttr(item, "GSI2PK") /\ HasAttr(item, "GSI2SK")
               /\ item.GSI2SK = item.created_at
               /\ HasAttr(item, "GSI1PK") /\ HasAttr(item, "GSI1SK")
               /\ item.GSI1PK = <<"USER", last.args.user_id>>

\* the contracts of the table that user_id owns
ContractsOwnedBy(tbl, user_id) ==
    { i \in tbl : /\ BeginsWithTag(i.PK, "CONTRACT") /\ i.SK = <<"METADATA">>
                  /\ i.user_id = user_id }

\* C9 (under SpecContracts): get_user_contracts(u) returns all the contracts
\* owned by u, so a contract created for u is returned.  The code breaks it:
\* the query looks under PK USER#<u>, where create_contract writes nothing.
C9_UserContractsReturned ==
    (last.op = "get_user_contracts" /\ last.outcome = "returned")
        => last.result = ContractsOwnedBy(table, last.args.user_id)

\* C10 (under Spec): every operation of the store that hits a store failure
\* surfaces it to its caller as an error.  The code breaks it: get_fee_analytics
\* catches the failure and returns its initial dict.
C10_StoreFailureSurfaces ==
    last.store_failed => last.outcome = "raised"

\* the operations of lines 36-276: one call on the table each
IsLedgerStoreCall == last.op \notin { "none", "get_contract_for_compliance" }

\* C24 (under Spec): each Ledger Store operation issues exactly one request to
\* the store, and when that request fails the operation fails, the request not
\* being issued again.  The code breaks it: get_fee_analytics, whose single
\* scan failed, does not fail but returns its initial dict.
C24_OneRequestFailureFails ==
    IsLedgerStoreCall
        => /\ last.requests = 1
           /\ last.store_failed => last.outcome = "raised"

\* what the code does hold to: one request per operation, failed or not
C24_OneRequestPerOperation ==
    IsLedgerStoreCall => last.requests = 1

\* the item get_user or get_contract was asked for, None when there is none
AskedItem ==
    IF last.op = "get_user"
    THEN GetItem(table, <<"USER", last.args.user_id>>, <<"METADATA">>)
    ELSE GetItem(table, <<"CONTRACT", last.args.contract_id>>, <<"METADATA">>)

IsGetByKey == last.op \in { "get_user", "get_contract" } /\ ~last.store_failed

IsRepeatedCreateUser ==
    /\ last.op = "create_user" /\ last.outcome = "returned"
    /\ last.replaced # None
    /\ last.replaced.email = last.args.email
    /\ last.replaced.role = last.args.role

\* C12 as stated (under SpecUsers): create_user is idempotent on identical
\* input, so a second call with the same (user_id, email, role) leaves the
\* record, and the store, as the first call left them; a call with different
\* data replaces the record.
C12_CreateUserIdempotent ==
    /\ IsRepeatedCreateUser => last.result = last.replaced
    /\ (last.op = "create_user" /\ last.outcome = "returned")
          => GetItem(table, <<"USER", last.args.user_id>>, <<"METADATA">>) = last.result

\* C12 as the code has it (under SpecUsers): after create_user returns, the
\* store holds one record of the user, with the email and role of this call
\* (last write wins); a second call with the same (user_id, email, role)
\* keeps the key, email and role, and writes created_at and updated_at anew,
\* with the time of the second call, never an earlier one.
C12_CreateUserRewritesTimestamps ==
    (last.op = "create_user" /\ last.outcome = "returned")
        => LET stored == GetItem(table, <<"USER", last.args.user_id>>, <<"METADATA">>)
           IN  /\ stored = last.result
               /\ Cardinality({ i \in table : i.PK = <<"USER", last.args.user_id>> }) = 1
               /\ stored.email = last.args.email
               /\ stored.role = last.args.role
               /\ last.replaced # None
                     => /\ [stored EXCEPT !.created_at = last.replaced.created_at,
                                          !.updated_at = last.replaced.updated_at,
                                          !.email = last.replaced.email,
                                          !.role = last.replaced.role] = last.replaced
                        /\ stored.created_at >= last.replaced.updated_at
                        /\ stored.updated_at >= stored.created_at

\* the same input written twice, the second time at a later time
C12_Witness ==
    /\ IsRepeatedCreateUser
    /\ last.result.created_at > last.replaced.created_at
    /\ last.result.email = last.replaced.email
    /\ last.result.role = last.replaced.role

\* j is the record i, but for its status and updated_at
SameButStatus(i, j) ==
    /\ DOMAIN i = DOMAIN j
    /\ \A a \in DOMAIN i \ { "status", "updated_at" } : i[a] = j[a]

IsUserRecord(i) == i.PK[1] = "USER" /\ i.SK = <<"METADATA">>

\* C13 as stated (under SpecWrites): no operation deletes a record or changes
\* a field of an existing record other than status and updated_at; a record is
\* created once and never overwritten with different content.
C13_RecordsNeverOverwritten ==
    [][ \A i \in table : \E j \in table' :
            j.PK = i.PK /\ j.SK = i.SK /\ SameButStatus(i, j) ]_vars

\* C13 as the code has it (under SpecWrites): no operation deletes a record;
\* a contract, transaction or fee record stays exactly as it was written,
\* status and updated_at included; a user record changes only in a step of
\* create_user on its id, which replaces the whole record.
C13_OnlyUserRecordsOverwritten ==
    [][ \A i \in table :
            /\ \E j \in table' : j.PK = i.PK /\ j.SK = i.SK
            /\ ~IsUserRecord(i) => i \in table'
            /\ (IsUserRecord(i) /\ i \notin table')
                  => /\ last'.op = "create_user" /\ last'.outcome = "returned"
                     /\ last'.replaced = i
                     /\ last'.result \in table'
                     /\ last'.result.PK = i.PK ]_vars

\* a user record was written over while another record was in the table
C13_Witness ==
    /\ last.op = "create_user" /\ last.outcome = "returned"
    /\ last.replaced # None
    /\ last.replaced # last.result
    /\ last.replaced \notin table
    /\ \E i \in table : ~IsUserRecord(i)

IsContractRecord(i) == i.PK[1] = "CONTRACT" /\ i.SK = <<"METADATA">>

IsTransactionRecord(i) == i.PK[1] = "CONTRACT" /\ i.SK[1] = "TX"

\* C25 (under SpecWrites): in every reachable state each Transaction record is
\* keyed under one contract identifier and a Contract record with that
\* identifier is in the store.  The code breaks it: log_transaction puts the
\* record without looking for the contract.
C25_TransactionHasParentContract ==
    \A i \in table :
        IsTransactionRecord(i)
            => /\ Len(i.PK) = 2
               /\ \E c \in table : IsContractRecord(c) /\ c.PK = i.PK

\* the contract is listed under its athlete wallet (GSI1) and in the global
\* listing of the contracts (GSI2), both by its creation time
HasBothIndexEntries(i) ==
    /\ HasAttr(i, "GSI1PK") /\ HasAttr(i, "GSI1SK")
    /\ HasAttr(i, "GSI2PK") /\ HasAttr(i, "GSI2SK")
    /\ i.GSI1PK = <<"WALLET", i.athlete_wallet>>
    /\ i.GSI1SK = <<"CONTRACT", i.created_at>>
    /\ i.GSI2PK = "CONTRACT"
    /\ i.GSI2SK = i.created_at

\* C14 (under SpecWrites): create_contract generates an id that no contract
\* in the table has, and writes exactly one item, of status 'active', carrying
\* the athlete-wallet and the global-listing index entries; a failed write
\* leaves the table as it was; in every reachable state every contract record
\* carries both index entries.
C14_ContractWrittenWithBothIndexes ==
    /\ [](\A i \in table : IsContractRecord(i) => HasBothIndexEntries(i))
    /\ [][ (last'.op = "create_contract" /\ next_id' # next_id)
              => IF last'.outcome = "returned"
                 THEN LET item == last'.result
                      IN  /\ table' \ table = { item }
                          /\ table \subseteq table'
                          /\ \A i \in table : IsContractRecord(i) => i.PK # item.PK
                          /\ IsContractRecord(item)
                          /\ item.status = "active"
                          /\ HasBothIndexEntries(item)
                 ELSE table' = table ]_vars

\* a second contract was written next to an earlier one
C14_Witness ==
    /\ last.op = "create_contract" /\ last.outcome = "returned"
    /\ last.result \in table
    /\ HasBothIndexEntries(last.result)
    /\ \E i \in table : IsContractRecord(i) /\ i.PK # last.result.PK

\* the fields of a contract that C15 follows from the call to the read
ContractFields(i) ==
    [ user_id |-> i.user_id, athlete_wallet |-> i.athlete_wallet,
      sponsor_wallet |-> i.sponsor_wallet, address |-> i.address,
      status |-> i.status ]

\* C15 (under SpecContractReads): a contract written by create_contract and
\* read by get_contract with the generated id comes back with the owner, the
\* athlete and sponsor wallets and the contract address of the call, and status
\* 'active', whatever is done in between: the item is stored with the fields of
\* the call, no later step changes it, and get_contract returns the stored item.
C15_ContractRoundTrip ==
    /\ []((last.op = "create_contract" /\ last.outcome = "returned")
            => /\ GetItem(table, <<"CONTRACT", next_id>>, <<"METADATA">>) = last.result
               /\ ContractFields(last.result)
                     = [ user_id |-> last.args.user_id,
                         athlete_wallet |-> last.args.athlete_wallet,
                         sponsor_wallet |-> last.args.sponsor_wallet,
                         address |-> last.args.contract_address,
                         status |-> "active" ])
    /\ [][ \A i \in table :
              IsContractRecord(i) => GetItem(table', i.PK, <<"METADATA">>) = i ]_vars
    /\ []((last.op = "get_contract" /\ last.outcome = "returned")
            => \A i \in table :
                  (IsContractRecord(i) /\ i.PK = <<"CONTRACT", last.args.contract_id>>)
                      => /\ last.result # None
                         /\ ContractFields(last.result) = ContractFields(i))

\* a contract read back at a later time, with a transaction logged under it
C15_Witness ==
    /\ last.op = "get_contract" /\ last.outcome = "returned"
    /\ last.result # None
    /\ last.result.PK = <<"CONTRACT", last.args.contract_id>>
    /\ last.result.status = "active"
    /\ last.result.created_at < clock
    /\ \E i \in table : i.PK = last.result.PK /\ BeginsWithTag(i.SK, "TX")

\* the kind of a record, read off its primary key: the three kinds of fee,
\* transactions, contracts
RecordKind(i) ==
    IF i.PK[1] = "FEE" /\ i.SK = <<"DEPLOYMENT">> THEN "FEE"
    ELSE IF i.PK[1] = "USER" /\ i.SK[1] = "SUB" THEN "SUB"
    ELSE IF i.PK[1] = "USER" /\ i.SK[1] = "PREMIUM" THEN "PREMIUM"
    ELSE IF i.PK[1] = "CONTRACT" /\ i.SK[1] = "TX" THEN "TX"
    ELSE IF i.PK[1] = "CONTRACT" /\ i.SK = <<"METADATA">> THEN "CONTRACT"
    ELSE "USER"

FeeKinds == { "FEE", "SUB", "PREMIUM" }

IsRangeQuery == last.op = "get_transactions_by_date_range" /\ last.outcome = "returned"

\* C16 (under SpecRanges): a range query over the global index for a kind of
\* fee returns the recorded fees of that kind created from start to end, both
\* ends included, and nothing else: a record created after end is left out,
\* and a record of another kind, fee or transaction, is never returned.
C16_RangeQueryByKind ==
    IsRangeQuery
        => /\ last.result \subseteq table
           /\ \A i \in table :
                  i \in last.result
                      <=> /\ RecordKind(i) = last.args.entity_type
                          /\ last.args.start_date <= i.created_at
                          /\ i.created_at <= last.args.end_date

\* a fee created at the end of the range is returned; one of another kind in
\* the range is not
C16_Witness ==
    /\ IsRangeQuery
    /\ last.args.entity_type \in FeeKinds
    /\ \E i \in last.result : i.created_at = last.args.end_date /\ i.created_at > 0
    /\ \E j \in table \ last.result :
           /\ RecordKind(j) # last.args.entity_type
           /\ last.args.start_date <= j.created_at
           /\ j.created_at <= last.args.end_date

\* the fee records of the table, of all three kinds, told by their keys
FeeRecords(tbl) == { i \in tbl : RecordKind(i) \in FeeKinds }

IsAnalytics == last.op = "get_fee_analytics" /\ ~last.store_failed

TransactionsTo(tbl, wallet) ==
    { i \in tbl : RecordKind(i) = "TX" /\ i.recipient_wallet = wallet }

\* C18 (under SpecWallets): get_wallet_transactions(wallet, limit) returns only
\* transactions whose recipient is that wallet, each once, at most limit of
\* them (all of them when there are no more than limit), ordered from the most
\* recent to the oldest, and none that it leaves out is more recent than one
\* it returns.
C18_WalletTransactionsNewestFirst ==
    (last.op = "get_wallet_transactions" /\ last.outcome = "returned")
        => LET r == last.result
               all == TransactionsTo(table, last.args.wallet_address)
               returned == { r[k] : k \in 1..Len(r) }
           IN  /\ returned \subseteq all
               /\ Len(r) <= last.args.limit
               /\ Len(r) = Min(last.args.limit, Cardinality(all))
               /\ Cardinality(returned) = Len(r)
               /\ \A k, l \in 1..Len(r) : k < l => r[k].created_at >= r[l].created_at
               /\ \A i \in all \ returned : \A k \in 1..Len(r) :
                      r[k].created_at >= i.created_at

\* of two transactions to the wallet, limit 1 returns the later one, and a
\* record of another kind or wallet is left out
C18_Witness ==
    /\ last.op = "get_wallet_transactions" /\ last.outcome = "returned"
    /\ last.args.limit = 1
    /\ Len(last.result) = 1
    /\ \E i \in TransactionsTo(table, last.args.wallet_address) :
           i.created_at < last.result[1].created_at

\* the fee-recording calls of FeeWriteNext, as FeeWrites lists store calls
FeeCalls ==
    { [ op |-> "record_deployment_fee",
        args |-> [ user_id |-> u, user_type |-> "athlete",
                   contract_type |-> "sponsorship", fee_usd |-> f ] ] :
        u \in Users, f \in DeploymentFees }
    \cup { [ op |-> "record_subscription_fee",
             args |-> [ user_id |-> u, user_type |-> "athlete",
                        plan_name |-> pl, fee_usd |-> f ] ] :
             u \in Users, pl \in OnePlan, f \in SubscriptionFees }
    \cup { [ op |-> "record_premium_fee",
             args |-> [ user_id |-> u, user_type |-> "athlete",
                        feature_name |-> ft, fee_usd |-> f ] ] :
             u \in Users, ft \in Features, f \in PremiumFeatureFees }

\* the table after call a at time t1 and then call b at time t2, the first
\* drawing the identifier id0 + 1 and the second id0 + 2
AfterFeeCalls(tbl, a, b, id0, t1, t2) ==
    PutItem(PutItem(tbl, FeeWriteItem(a, id0 + 1, t1, t1)),
            FeeWriteItem(b, id0 + 2, t2, t2))

\* a fee record without its generated identifier and its timestamps
FeeContent(i) ==
    [ kind |-> RecordKind(i),
      user_id |-> IF RecordKind(i) = "FEE" THEN i.user_id ELSE i.PK[2],
      what |-> IF RecordKind(i) = "FEE" THEN i.contract_type
               ELSE IF RecordKind(i) = "SUB" THEN i.plan
               ELSE i.feature_name,
      days |-> IF RecordKind(i) = "SUB" THEN i.end_date.days ELSE 0,
      fee_usd |-> i.fee_usd,
      status |-> i.status ]

\* two tables hold the same fee records, identifiers and timestamps apart
SameFeeRecords(tbl1, tbl2) ==
    \A c \in { FeeContent(i) : i \in FeeRecords(tbl1) \cup FeeRecords(tbl2) } :
        Cardinality({ i \in FeeRecords(tbl1) : FeeContent(i) = c })
            = Cardinality({ i \in FeeRecords(tbl2) : FeeContent(i) = c })

\* C20 (under SpecFeeWrites): fee-recording calls are independent and
\* commutative: from every reachable table, any two record-fee calls made in
\* either order leave the same fee records, identifiers and timestamps apart,
\* and both orders keep every record that was there and add one record for
\* each call, so neither call overwrites or loses the record of the other.
C20_FeeCallsCommute ==
    \A a \in FeeCalls, b \in FeeCalls :
        \A t1 \in LaterReads(clock) : \A t2 \in LaterReads(t1) :
            LET ab == AfterFeeCalls(table, a, b, next_id, t1, t2)
                ba == AfterFeeCalls(table, b, a, next_id, t1, t2)
            IN  /\ SameFeeRecords(ab, ba)
                /\ table \subseteq ab /\ table \subseteq ba
                /\ Cardinality(ab) = Cardinality(table) + 2
                /\ Cardinality(ba) = Cardinality(table) + 2
                /\ FeeRecords(ab) = ab /\ FeeRecords(ba) = ba

\* two calls with the same arguments have both left their record
C20_Witness ==
    /\ IsFeeRecordCall /\ last.outcome = "returned"
    /\ last.result \in table
    /\ \E i \in table : /\ i # last.result
                         /\ FeeContent(i) = FeeContent(last.result)
                         /\ RecordKind(i) = "SUB"

----------------------------------------------------------------------------
(* Properties of the sponsorship workflow, under SpecSponsorship *)

IsSponsorshipCall == response.op = "create_sponsorship_opportunity"

\* C19: in create_sponsorship_opportunity a fee write that fails does not fail
\* the call: the call returns success, with the blockchain task and the fee
\* breakdown of the deal, and no error reaches the caller.
C19_FeeWriteFailureNotPropagated ==
    (IsSponsorshipCall /\ response.fee_write_failed)
        => /\ response.outcome = "returned"
           /\ response.result.success = TRUE
           /\ response.task_created
           /\ response.result.blockchain_task.amount_eth = response.args.task_data.amount_eth
           /\ response.result.fee_breakdown.deal_value_usd
                 = DealValueUsd(response.args.task_data.amount_eth)
           /\ response.result.fee_breakdown.total_effective_fee_usd
                 = response.result.fee_breakdown.transaction_fee_usd + USD(27, 50)
           /\ Len(response.attempted) >= 1

\* the subscription write failed after the deployment fee was written, and the
\* call returned success
C19_Witness ==
    /\ IsSponsorshipCall /\ response.fee_write_failed
    /\ response.outcome = "returned"
    /\ response.attempted = << "record_deployment_fee", "record_subscription_fee" >>
    /\ last.op = "record_subscription_fee" /\ last.outcome = "raised"
    /\ \E i \in table : RecordKind(i) = "FEE" /\ i.PK[2] = next_id - 1

\* the unrounded transaction fee, total and effective percent of a breakdown
\* are those calculate_deal_fees ends with for the same deal value
AgreesWithFeeService(breakdown) ==
    LET fees == calculate_deal_fees(breakdown.deal_value_usd, fee_structure)
    IN  /\ fees.outcome = "ok"
        /\ breakdown.transaction_fee_usd = fees.locals.transaction_fee
        /\ breakdown.total_effective_fee_usd = fees.locals.total_fee
        /\ breakdown.effective_fee_percentage = fees.locals.effective_percent

\* C26: for every positive deal value the fee breakdown computed inline by
\* create_sponsorship_opportunity has the transaction fee, total fee and
\* effective percentage, unrounded, that calculate_deal_fees gives for the same
\* deal value: in every breakdown a call returned, and for every deal value of
\* DealValues put through the inline computation.
C26_InlineFeesMatchFeeService ==
    /\ (IsSponsorshipCall /\ response.outcome = "returned")
          => /\ response.result.fee_breakdown.deal_value_usd
                    = DealValueUsd(response.args.task_data.amount_eth)
             /\ AgreesWithFeeService(response.result.fee_breakdown)
    /\ \A deal \in { d \in DealValues : d > 0 } :
          AgreesWithFeeService(SponsorshipFeeBreakdown(deal, SponsorshipFees(deal)))

\* a deal of 100 (0.05 ETH): the inline tier and the calculator's min both
\* leave a transaction fee of 3.00
C26_Witness ==
    /\ IsSponsorshipCall /\ response.outcome = "returned"
    /\ response.result.fee_breakdown.deal_value_usd = USD(100, 0)
    /\ response.result.fee_breakdown.transaction_fee_usd = USD(3, 0)
    /\ calculate_deal_fees(USD(100, 0), fee_structure).locals.adjusted

\* C28: in create_sponsorship_opportunity the blockchain task is created before
\* any fee record is written: a call that ends without the task (the athlete
\* profile could not be fetched, or the task request failed) has raised, has
\* attempted no fee write, and has left the table and the identifiers drawn as
\* they were.
C28_TaskBeforeFeeRecords ==
    /\ [](IsSponsorshipCall
            => /\ ~response.task_created
                    => response.outcome = "raised" /\ response.attempted = << >>
               /\ response.attempted # << >> => response.task_created)
    /\ [][ (response'.op = "create_sponsorship_opportunity" /\ ~response'.task_created)
               => (table' = table /\ next_id' = next_id) ]_vars

\* a call that failed before its task, after an earlier call recorded its fees
C28_Witness ==
    /\ IsSponsorshipCall
    /\ response.outcome = "raised" /\ response.error = "RequestException"
    /\ ~response.task_created
    /\ response.attempted = << >>
    /\ Cardinality(table) = 2 /\ next_id = 2

IsRecordingCall == response.op = "_record_fee_analytics"

\* the store calls _record_fee_analytics is to make for these amounts
ExpectedFeeCalls(f) ==
    << "record_deployment_fee" >>
    \o (IF f.subscription_fee_usd > 0 THEN << "record_subscription_fee" >> ELSE << >>)
    \o (IF f.premium_fee_usd > 0 THEN << "record_premium_fee" >> ELSE << >>)

FeeCallKind(op) ==
    IF op = "record_deployment_fee" THEN "FEE"
    ELSE IF op = "record_subscription_fee" THEN "SUB" ELSE "PREMIUM"

\* C29 (under SpecRecording): _record_fee_analytics makes its store calls in the
\* order deployment, subscription, premium, the last two only for an amount
\* above 0; when a call fails the records written before it are in the store,
\* no later call is attempted, and no record is removed: the call adds to the
\* table the records it wrote and nothing else.
C29_FeeWritesInOrderNoRollback ==
    /\ [](IsRecordingCall
            => LET expected == ExpectedFeeCalls(response.args.fees)
                   a == response.attempted
                   w == response.written
               IN  /\ Len(a) <= Len(expected)
                   /\ \A k \in 1..Len(a) : a[k] = expected[k]
                   /\ Len(a) >= 1
                   /\ IF response.fee_write_failed
                      THEN Len(w) = Len(a) - 1
                      ELSE Len(w) = Len(a) /\ a = expected
                   /\ \A k \in 1..Len(w) :
                         w[k] \in table /\ RecordKind(w[k]) = FeeCallKind(expected[k]))
    /\ [][ /\ \A i \in table : i \in table'
           /\ next_id' # next_id
                => /\ response'.op = "_record_fee_analytics"
                   /\ next_id' = next_id + Len(response'.attempted)
                   /\ Cardinality(table') = Cardinality(table) + Len(response'.written)
         ]_vars

\* the premium write failed: the deployment and subscription records are in
\* the store, and the call returned
C29_Witness ==
    /\ IsRecordingCall /\ response.fee_write_failed
    /\ response.attempted = << "record_deployment_fee", "record_subscription_fee",
                               "record_premium_fee" >>
    /\ Len(response.written) = 2
    /\ \A k \in 1..2 : response.written[k] \in table
    /\ ~\E i \in table : RecordKind(i) = "PREMIUM"

IsSubscribeCall == response.op = "subscribe_user" /\ response.outcome = "returned"

\* C27 (under SpecSubscribe): for every billing_cycle the subscription record
\* persisted through /subscribe has an end_date as many days ahead as the
\* next_billing_date returned to the caller (30, 90 or 365 days for monthly,
\* quarterly, annual), and the endpoint's monthly fee and period length are
\* those of calculate_subscription_fee for the same cycle.  The code breaks it:
\* the store derives end_date from plan_name, which is not the billing cycle.
C27_EndDateMatchesNextBilling ==
    IsSubscribeCall
        => LET cycle == response.args.billing_cycle
               fees == calculate_subscription_fee(cycle, fee_structure,
                                                  response.result.next_billing_date.from)
           IN  /\ response.record \in table
               /\ response.record.end_date.days = response.result.next_billing_date.days
               /\ response.result.next_billing_date.days = BillingDays(cycle)
               /\ response.result.next_billing_date = fees.next_billing_date
               /\ response.result.monthly_fee_usd = fees.monthly_fee_usd
               /\ response.record.fee_usd = ToDecimal(fees.monthly_fee_usd)

\* what the code does hold to: the endpoint's fee and period are those of
\* calculate_subscription_fee, and the record's end_date follows plan_name
C27_EndDateFollowsPlanName ==
    IsSubscribeCall
        => LET cycle == response.args.billing_cycle
               fees == calculate_subscription_fee(cycle, fee_structure,
                                                  response.result.next_billing_date.from)
           IN  /\ response.result.next_billing_date = fees.next_billing_date
               /\ response.result.monthly_fee_usd = fees.monthly_fee_usd
               /\ response.record.end_date.days = SubscriptionDays(response.args.plan_name)

====
